---- MODULE Spec2Model ----
(***************************************************************************)
(* A model of exhume_body: the RAW, EWF, VMDK and AFF4 read/seek engines,  *)
(* the Body dispatcher and the BodySlice view.                             *)
(*                                                                         *)
(* Byte offsets are 0-based as in the source; TLA+ sequences are 1-based,  *)
(* so the Rust slice s[a..b] is Slice(s, a, b) == SubSeq(s, a+1, b).       *)
(* Every operation returns a record whose field res is "ok", "err" (an    *)
(* io::Error / Err(String)), "panic" (unwrap, slice bounds, arithmetic) or *)
(* "exit" (std::process::exit).                                            *)
(***************************************************************************)
EXTENDS Integers, Sequences, FiniteSets, TLC

VARIABLES
    eng,     \* handle -> engine object (a record) or NoEngine
    ofd,     \* OS open file descriptions: id -> file cursor
    thr,     \* thread -> where the thread stands inside EWF::read_chunk
    last     \* the outcome of the last operation (history variable)

vars == <<eng, ofd, thr, last>>

\* ------------------------------------------------------------------ bounds

\* Longest buffer handed to read.
MaxLen == 3
\* Largest magnitude of a seek offset.
MaxOff == 2
\* Bytes per sector of the model's test images (the scale of the model).
SectorBytes == 2

\* ----------------------------------------------------------------- helpers

Min(a, b) == IF a < b THEN a ELSE b
Max(a, b) == IF a > b THEN a ELSE b

Slice(s, a, b) == SubSeq(s, a + 1, b)

Rep(x, n) == [i \in 1..n |-> x]

\* Logical byte i of every test image: non-zero and distinct per offset.
ImageByte(i) == i + 1
ImageBytes(a, b) == [i \in 1..(b - a) |-> ImageByte(a + i - 1)]

RECURSIVE Concat(_)
Concat(ss) == IF ss = <<>> THEN <<>> ELSE Head(ss) \o Concat(Tail(ss))

RECURSIVE SumSeq(_)
SumSeq(s) == IF s = <<>> THEN 0 ELSE Head(s) + SumSeq(Tail(s))

\* The file contents at [off, off+n): fewer bytes when the file ends first.
FileRead(file, off, n) ==
    IF off >= Len(file) THEN <<>> ELSE Slice(file, off, Min(off + n, Len(file)))

\* zlib payloads are modelled by a run-length code: (count, byte) pairs.
\* A count of 0 ends the stream.
RECURSIVE Inflate(_)
Inflate(p) ==
    IF Len(p) < 2 \/ p[1] = 0 THEN <<>>
    ELSE Rep(p[2], p[1]) \o Inflate(Tail(Tail(p)))

RECURSIVE Deflate(_)
Deflate(d) ==
    IF d = <<>> THEN <<>> ELSE <<1, Head(d)>> \o Deflate(Tail(d))

NoEngine == [kind |-> "none"]

Whence == {"Start", "Current", "End"}

\* Stands for 2^64 (u64 arithmetic wraps there): a number above every
\* length of the test images.
U64Modulus == 2 ^ 30

\* i64::MAX and i64::MIN at that scale.
I64Max == (U64Modulus \div 2) - 1
I64Min == -(U64Modulus \div 2)

\* (v as u64) of a signed value.
AsU64(v) == v % U64Modulus

\* (v as i64) of an unsigned value.
AsI64(v) == IF v > I64Max THEN v - U64Modulus ELSE v

\* a + b on i64.  checks: the build has overflow checks (debug profile), and
\* an overflow panics; without them the sum wraps.
AddI64(a, b, checks) ==
    IF I64Min <= a + b /\ a + b <= I64Max THEN [res |-> "ok", val |-> a + b]
    ELSE IF checks THEN [res |-> "panic", val |-> 0]
    ELSE [res |-> "ok", val |-> AsI64(AsU64(a + b))]

\* a + b on u64, likewise.
AddU64(a, b, checks) ==
    IF a + b < U64Modulus THEN [res |-> "ok", val |-> a + b]
    ELSE IF checks THEN [res |-> "panic", val |-> 0]
    ELSE [res |-> "ok", val |-> AsU64(a + b)]

\* ===================================================================== EWF
\* Test images.  Image 1: two segments with one chunk each (the second one
\* compressed).  Image 2: one segment, two chunks, the image one sector short
\* of two chunks and its last chunk compressed, so that it decodes short.
\* Image 3: as image 2 with the last chunk stored raw (padded to chunk_size).
\* Image 4: two chunks in segment 1 and one in segment 2.
EwfImages == {1, 2, 3, 4}

\* Sectors per chunk of the test images.
SectorsPerChunk == 2

\* Global chunk numbers held by each segment, in table order.
EwfSegChunks(img) ==
    CASE img = 1 -> << <<0>>, <<1>> >>
      [] img = 4 -> << <<0, 1>>, <<2>> >>
      [] OTHER   -> << <<0, 1>> >>

EwfChunkTotal(img) == SumSeq([s \in 1..Len(EwfSegChunks(img)) |-> Len(EwfSegChunks(img)[s])])

EwfChunkCompressed(img, k) ==
    CASE img = 1 -> k = 1
      [] img = 2 -> k = 1
      [] img = 3 -> FALSE
      [] OTHER   -> k = 1

\* The volume section (EwfVolumeSection::new reads it from the segment).
EwfVolumes ==
    [img \in EwfImages |->
        [chunk_count        |-> EwfChunkTotal(img),
         sector_per_chunk   |-> SectorsPerChunk,
         bytes_per_sector   |-> SectorBytes,
         total_sector_count |-> IF img \in {2, 3}
                                THEN EwfChunkTotal(img) * SectorsPerChunk - 1
                                ELSE EwfChunkTotal(img) * SectorsPerChunk]]

EwfVolume(img) == EwfVolumes[img]

chunk_size(volume) == volume.sector_per_chunk * volume.bytes_per_sector

max_offset(volume) == volume.total_sector_count * volume.bytes_per_sector

\* What chunk k decodes to: the image bytes of the chunk; a raw chunk is
\* stored padded with zeroes to chunk_size, a compressed one is not.
EwfChunkData(img, k) ==
    LET cs   == chunk_size(EwfVolume(img))
        lo   == k * cs
        hi   == Min((k + 1) * cs, max_offset(EwfVolume(img)))
        data == ImageBytes(lo, hi)
    IN  IF EwfChunkCompressed(img, k) THEN data
        ELSE data \o Rep(0, cs - Len(data))

EwfChunkPayload(img, k) ==
    IF EwfChunkCompressed(img, k) THEN Deflate(EwfChunkData(img, k))
    ELSE EwfChunkData(img, k)

\* A segment file: one byte of headers, the chunk payloads of the sectors
\* section back to back, one byte of trailing sections.
EwfSegPayloads(img, seg) ==
    [j \in 1..Len(EwfSegChunks(img)[seg]) |-> EwfChunkPayload(img, EwfSegChunks(img)[seg][j])]

EwfSegmentFiles ==
    [img \in EwfImages |->
        [seg \in 1..Len(EwfSegChunks(img)) |->
            <<0>> \o Concat(EwfSegPayloads(img, seg)) \o <<0>>]]

EwfSegmentFile(img, seg) == EwfSegmentFiles[img][seg]

\* self.segments.len()
EwfSegmentCount(img) == Len(EwfSegChunks(img))

\* self.chunks: segment -> Vec<Chunk>, as parse_table builds it.
EwfChunkTables ==
    [img \in EwfImages |->
        [seg \in 1..EwfSegmentCount(img) |->
            [j \in 1..Len(EwfSegChunks(img)[seg]) |->
                [compressed   |-> EwfChunkCompressed(img, EwfSegChunks(img)[seg][j]),
                 data_offset  |-> 1 + SumSeq([i \in 1..(j - 1) |->
                                                Len(EwfSegPayloads(img, seg)[i])]),
                 chunk_number |-> EwfSegChunks(img)[seg][j]]]]]

EwfChunks(img) == EwfChunkTables[img]

\* self.end_of_sectors: segment -> tail of the sectors section.
EwfEndTables ==
    [img \in EwfImages |->
        [seg \in 1..EwfSegmentCount(img) |-> 1 + Len(Concat(EwfSegPayloads(img, seg)))]]

EwfEndOfSectors(img) == EwfEndTables[img]

\* ChunkCache::default()
ChunkCacheDefault == [number |-> 0, segment |-> 1, ptr |-> 0, data |-> <<>>]

\* The engine EWF::new returns for a test image.
EwfNew(img) ==
    [kind |-> "EWF", img |-> img,
     segments       |-> EwfSegmentFiles[img],
     volume         |-> EwfVolume(img),
     chunks         |-> EwfChunks(img),
     end_of_sectors |-> EwfEndOfSectors(img),
     cached_chunk   |-> ChunkCacheDefault,
     position       |-> 0]

\* EWF::read_chunk after file.seek: read_exact and the decoding, with the
\* cursor of the segment's open file description at cursor.
ReadChunkAt(e, segment, chunk_number, cursor) ==
    LET chunks == e.chunks
        volume == e.volume
        chunk  == chunks[segment][chunk_number + 1]
        start_offset == chunk.data_offset
        file   == e.segments[segment]
    IN  IF ~chunk.compressed
        THEN LET data == FileRead(file, cursor, chunk_size(volume))
             IN  IF Len(data) < chunk_size(volume)
                 THEN [res |-> "panic", data |-> <<>>, cursor |-> cursor + Len(data)]
                 ELSE [res |-> "ok", data |-> data, cursor |-> cursor + Len(data)]
        ELSE
          LET end_offset ==
                  IF chunk.data_offset = chunks[segment][Len(chunks[segment])].data_offset
                  THEN e.end_of_sectors[segment]
                  ELSE chunks[segment][chunk_number + 2].data_offset
              compressed_data == FileRead(file, cursor, end_offset - start_offset)
          IN  IF end_offset < start_offset
              THEN [res |-> "panic", data |-> <<>>, cursor |-> cursor]
              ELSE IF Len(compressed_data) < end_offset - start_offset
              THEN [res |-> "panic", data |-> <<>>,
                    cursor |-> cursor + Len(compressed_data)]
              ELSE [res |-> "ok", data |-> Inflate(compressed_data),
                    cursor |-> cursor + Len(compressed_data)]

\* EWF::read_chunk: chunk_number is the index inside the segment (0-based).
\* The duplicated descriptor is positioned at the chunk, then read.
read_chunk(e, segment, chunk_number) ==
    IF segment \notin DOMAIN e.chunks
    THEN [res |-> "panic", data |-> <<>>, cursor |-> 0]
    ELSE IF chunk_number >= Len(e.chunks[segment])
    THEN [res |-> "exit", data |-> <<>>, cursor |-> 0]
    ELSE ReadChunkAt(e, segment, chunk_number,
                     e.chunks[segment][chunk_number + 1].data_offset)

RECURSIVE EwfReadLoop(_, _, _, _)

\* A move to the next chunk that keeps the data of the chunk just drained.
EwfNextChunkKeepsData(e, c3, out2, rem2, rc) ==
    IF rc.res # "ok" THEN [res |-> rc.res, cache |-> c3, out |-> out2]
    ELSE EwfReadLoop(e, [c3 EXCEPT !.ptr = 0], out2, rem2)

\* The end of one turn of the loop that moved to the next chunk: rc is what
\* read_chunk returned for it.
EwfNextChunk(e, c3, out2, rem2, rc) ==
    IF rc.res # "ok" THEN [res |-> rc.res, cache |-> c3, out |-> out2]
    ELSE EwfReadLoop(e, [c3 EXCEPT !.data = rc.data, !.ptr = 0], out2, rem2)

\* The body of the while loop of EWF::ewf_read; c is self.cached_chunk.
EwfReadLoop(e, c, out, remaining) ==
    LET current_chunk_size == chunk_size(e.volume)
        available_in_chunk == current_chunk_size - c.ptr
        nsegs              == Len(e.segments)
    IN  IF remaining = 0 THEN [res |-> "ok", cache |-> c, out |-> out]
        ELSE IF available_in_chunk < 0 THEN [res |-> "panic", cache |-> c, out |-> out]
        ELSE IF available_in_chunk >= remaining
        THEN IF c.ptr + remaining > Len(c.data)
             THEN [res |-> "panic", cache |-> c, out |-> out]
             ELSE [res   |-> "ok",
                   cache |-> [c EXCEPT !.ptr = c.ptr + remaining],
                   out   |-> out \o Slice(c.data, c.ptr, c.ptr + remaining)]
        ELSE IF c.ptr > Len(c.data) \/ Len(c.data) - c.ptr # available_in_chunk
        THEN [res |-> "panic", cache |-> c, out |-> out]
        ELSE IF c.segment < nsegs
                \/ (c.segment = nsegs /\ c.number + 1 < Len(e.chunks[c.segment]))
        THEN IF c.number + 1 < Len(e.chunks[c.segment])
             THEN EwfNextChunk(e, [c EXCEPT !.ptr = current_chunk_size,
                                            !.number = c.number + 1],
                               out \o Slice(c.data, c.ptr, Len(c.data)),
                               remaining - available_in_chunk,
                               read_chunk(e, c.segment, c.number + 1))
             ELSE EwfNextChunk(e, [c EXCEPT !.ptr = current_chunk_size,
                                            !.segment = c.segment + 1,
                                            !.number = 0],
                               out \o Slice(c.data, c.ptr, Len(c.data)),
                               remaining - available_in_chunk,
                               read_chunk(e, c.segment + 1, 0))
        ELSE [res   |-> "ok",
              cache |-> [c EXCEPT !.ptr = current_chunk_size],
              out   |-> out \o Slice(c.data, c.ptr, Len(c.data))]

\* What ewf_read returns and leaves behind: r is the outcome of its loop.
EwfReadDone(e, r) ==
    [res   |-> r.res,
     eng   |-> [e EXCEPT !.cached_chunk = r.cache],
     n     |-> IF r.res = "ok" THEN Len(r.out) ELSE 0,
     bytes |-> IF r.res = "ok" THEN r.out ELSE <<>>]

\* ewf_read once the cache is known to hold data (first: the chunk loaded
\* when it did not).
EwfReadFrom(e, first, len) ==
    IF first.res # "ok"
    THEN [res |-> first.res, eng |-> e, n |-> 0, bytes |-> <<>>]
    ELSE EwfReadDone(e, EwfReadLoop(e, [e.cached_chunk EXCEPT !.data = first.data],
                                    <<>>, len))

\* EWF::ewf_read and impl Read for EWF: always Ok(total_bytes_read).
ewf_read(e, len) ==
    IF e.cached_chunk.data = <<>>
    THEN EwfReadFrom(e, read_chunk(e, e.cached_chunk.segment, e.cached_chunk.number), len)
    ELSE EwfReadFrom(e, [res |-> "ok", data |-> e.cached_chunk.data], len)

\* The segment search of EWF::ewf_seek.
RECURSIVE EwfFindSegment(_, _, _)
EwfFindSegment(chunks, segment, chunk_number) ==
    IF segment < Len(chunks)
       /\ (chunks[segment][1].chunk_number > chunk_number
           \/ chunk_number > chunks[segment][Len(chunks[segment])].chunk_number)
    THEN EwfFindSegment(chunks, segment + 1, chunk_number)
    ELSE segment

\* The end of ewf_seek: rc is what read_chunk returned for the target chunk.
\* loads counts the chunks the call read and decoded.
EwfSeekDone(e, offset, segment, local, rc) ==
    IF rc.res # "ok" THEN [res |-> rc.res, eng |-> e, ret |-> 0, loads |-> 1]
    ELSE [res |-> "ok", loads |-> 1,
          eng |-> [e EXCEPT !.cached_chunk = [number  |-> local,
                                              segment |-> segment,
                                              ptr     |-> offset % chunk_size(e.volume),
                                              data    |-> rc.data],
                            !.position = offset],
          ret |-> offset]

\* ewf_seek once the segment of the target chunk is found.
EwfSeekIn(e, offset, segment, local) ==
    IF local < 0 THEN [res |-> "panic", eng |-> e, ret |-> 0, loads |-> 0]
    ELSE EwfSeekDone(e, offset, segment, local, read_chunk(e, segment, local))

\* EWF::ewf_seek; ret is what impl Seek returns on success.
ewf_seek(e, offset) ==
    LET chunk_number == offset \div chunk_size(e.volume)
        segment      == EwfFindSegment(e.chunks, 1, chunk_number)
    IN  IF offset > max_offset(e.volume)
        THEN [res |-> "err", eng |-> e, ret |-> 0, loads |-> 0]
        ELSE IF chunk_number >= e.volume.chunk_count
        THEN [res |-> "err", eng |-> e, ret |-> 0, loads |-> 0]
        ELSE EwfSeekIn(e, offset, segment,
                       chunk_number - e.chunks[segment][1].chunk_number)

\* impl Seek for EWF
EwfSeek(e, whence, o) ==
    LET new_offset == CASE whence = "Start"   -> o
                        [] whence = "Current" -> e.position + o
                        [] OTHER              -> max_offset(e.volume) + o
    IN  IF new_offset < 0 THEN [res |-> "err", eng |-> e, ret |-> 0, loads |-> 0]
        ELSE ewf_seek(e, new_offset)


\* ===================================================================== RAW
\* Sectors of the RAW test file.
RawSectors == 2

RawFile == ImageBytes(0, RawSectors * SectorBytes)

\* RAW::new: a fresh open file description, cursor 0.
RawNew(fd) == [kind |-> "RAW", file |-> fd]

\* impl Read for RAW: File::read at the cursor of the open file description.
RawRead(e, fds, len) ==
    LET c    == fds[e.file]
        data == FileRead(RawFile, c, len)
    IN  [res |-> "ok", eng |-> e, ofd |-> [fds EXCEPT ![e.file] = c + Len(data)],
         n |-> Len(data), bytes |-> data]

\* impl Seek for RAW: File::seek (lseek): any position an off_t can hold,
\* negative ones left out, is accepted (EINVAL, InvalidInput, otherwise).
RawSeek(e, fds, whence, o) ==
    LET new == CASE whence = "Start"   -> o
                 [] whence = "Current" -> fds[e.file] + o
                 [] OTHER              -> Len(RawFile) + o
    IN  IF new < 0 \/ new > I64Max
        THEN [res |-> "err", eng |-> e, ofd |-> fds, ret |-> 0]
        ELSE [res |-> "ok", eng |-> e, ofd |-> [fds EXCEPT ![e.file] = new], ret |-> new]

\* impl Clone for RAW: File::try_clone duplicates the descriptor; the copy
\* refers to the same open file description, hence to the same cursor.
RawClone(e) == [kind |-> "RAW", file |-> e.file]

\* ==================================================================== VMDK
\* Test images.  1: two FLAT extents.  2: FLAT, ZERO, FLAT (the ZERO line
\* names no file).  3: one monolithic SPARSE extent of three grains, the
\* middle one unallocated.  4: as 3 with compressed grains.
VmdkImages == {1, 2, 3, 4}

\* Sectors per extent (FLAT, ZERO) and per grain (SPARSE) of the test images.
ExtentSectors == 1

NoStart == -1
NoName == ""

ExtentDescriptor(type, count, name) ==
    [extent_type |-> type, sector_number |-> count,
     extent_file_name |-> name, extent_start_sector |-> NoStart]

\* descriptor_file.extent_descriptions as FromStr returns them.
VmdkDescriptor(img) ==
    CASE img = 1 -> << ExtentDescriptor("FLAT", ExtentSectors, "a"),
                       ExtentDescriptor("FLAT", ExtentSectors, "b") >>
      [] img = 2 -> << ExtentDescriptor("FLAT", ExtentSectors, "a"),
                       ExtentDescriptor("ZERO", ExtentSectors, NoName),
                       ExtentDescriptor("FLAT", ExtentSectors, "b") >>
      [] OTHER   -> << ExtentDescriptor("SPARSE", 3 * ExtentSectors, "s") >>

\* VMDK::new, "Calculate implicit extent offsets".
RECURSIVE ImplicitStarts(_, _)
ImplicitStarts(extents, next_start) ==
    IF extents = <<>> THEN <<>>
    ELSE LET x     == Head(extents)
             start == IF x.extent_start_sector = NoStart
                      THEN next_start ELSE x.extent_start_sector
         IN  <<[x EXCEPT !.extent_start_sector = start]>>
             \o ImplicitStarts(Tail(extents), start + x.sector_number)

\* The grain table of the SPARSE test extent: grain -> sector, 0 = sparse.
\* A raw grain takes ExtentSectors sectors, a compressed one its 12-byte
\* marker and its stream, rounded up to whole sectors.
GrainBytes == ExtentSectors * SectorBytes
CompressedGrainSectors == ((12 + 2 * GrainBytes + 1) + SectorBytes - 1) \div SectorBytes

VmdkSparseMeta(img) ==
    [compressed      |-> img = 4,
     grain_number    |-> ExtentSectors,
     grain_directory |-> IF img = 4 THEN <<1, 0, 1 + CompressedGrainSectors>>
                         ELSE <<1, 0, 1 + ExtentSectors>>]

\* A compressed grain on disk: the marker (8-byte sector number, 4-byte
\* size), the stream, zero padding up to a whole number of sectors.
CompressedGrain(data) ==
    LET body == Rep(0, 12) \o Deflate(data) \o <<0>>
    IN  body \o Rep(0, CompressedGrainSectors * SectorBytes - Len(body))

\* The bytes of the extent files of the test images.
VmdkFile(img, name) ==
    CASE name = "a" -> ImageBytes(0, ExtentSectors * SectorBytes)
      [] name = "b" -> IF img = 1
                       THEN ImageBytes(ExtentSectors * SectorBytes, 2 * ExtentSectors * SectorBytes)
                       ELSE ImageBytes(2 * ExtentSectors * SectorBytes, 3 * ExtentSectors * SectorBytes)
      [] name = "s" /\ img = 4 ->
            Rep(0, SectorBytes) \o CompressedGrain(ImageBytes(0, GrainBytes))
                                \o CompressedGrain(ImageBytes(2 * GrainBytes, 3 * GrainBytes))
      [] OTHER ->
            Rep(0, SectorBytes) \o ImageBytes(0, GrainBytes)
                                \o ImageBytes(2 * GrainBytes, 3 * GrainBytes)


\* A byte of the caller's buffer that the engine has not written.
Stale == -1

\* buf[at .. at + data.len()] = data
BufWrite(buf, at, data) ==
    [i \in 1..Len(buf) |-> IF i > at /\ i <= at + Len(data) THEN data[i - at] ELSE buf[i]]

NoMeta == [compressed |-> FALSE, grain_number |-> 0, grain_directory |-> <<>>]

\* What the file system and the extent files offer to VMDK::new: the names
\* File::open succeeds on, those whose sparse header parses, those whose
\* grain directory can be read.
GoodEnv == [open |-> {"a", "b", "s"}, header |-> {"s"}, gd |-> {"s"}]

\* The file name of a monolithic image (what set_path puts in its extent).
VmdkSelf == "s"

\* The closure of the filter_map of VMDK::new for one extent: <<>> is None.
\* have_header: sparse_header is Some when the closure runs.
OpenExtent(extent, meta, env, have_header, stream_optimized) ==
    IF extent.extent_file_name = NoName THEN <<>>
    ELSE IF extent.extent_file_name \notin env.open THEN <<>>
    ELSE IF extent.extent_type # "SPARSE"
    THEN << [extent_description |-> extent, file |-> extent.extent_file_name,
             sparse_extent_metadata |-> NoMeta] >>
    ELSE IF (~have_header \/ stream_optimized)
            /\ extent.extent_file_name \notin env.header
    THEN <<>>
    ELSE << [extent_description |-> extent, file |-> extent.extent_file_name,
             sparse_extent_metadata |->
                IF extent.extent_file_name \in env.gd THEN meta ELSE NoMeta] >>

\* sparse_header after the closure ran for one extent.
HeaderAfter(extent, env, have_header) ==
    \/ have_header
    \/ /\ extent.extent_file_name # NoName
       /\ extent.extent_file_name \in env.open
       /\ extent.extent_type = "SPARSE"
       /\ extent.extent_file_name \in env.header

RECURSIVE OpenExtents(_, _, _, _, _)
OpenExtents(extents, meta, env, have_header, stream_optimized) ==
    IF extents = <<>> THEN <<>>
    ELSE OpenExtent(Head(extents), meta, env, have_header, stream_optimized)
         \o OpenExtents(Tail(extents), meta, env,
                        HeaderAfter(Head(extents), env, have_header), stream_optimized)

\* VMDK::new, "the filename can be different from the one in the descriptor".
SetPaths(d) ==
    IF Len(d.extents) = 1 /\ d.create_type \in {"monolithicSparse", "streamOptimized"}
    THEN << [d.extents[1] EXCEPT !.extent_file_name = VmdkSelf] >>
    ELSE d.extents

\* VMDK::new once the descriptor d is parsed (d.has_header: the file starts
\* with the sparse magic and its header was read).  Every later failure is
\* swallowed by the filter_map.
VmdkNew(d, meta, env) ==
    IF ~d.parent_cid_ok
    THEN [res |-> "err", extent_descriptions |-> <<>>, extent_files |-> <<>>]
    ELSE [res |-> "ok",
          extent_descriptions |-> ImplicitStarts(SetPaths(d), 0),
          extent_files |-> OpenExtents(ImplicitStarts(SetPaths(d), 0), meta, env,
                                       d.has_header,
                                       d.create_type = "streamOptimized")]

\* The parsed descriptor of a test image.
VmdkParsed(img) ==
    [parent_cid_ok |-> TRUE,
     create_type   |-> CASE img = 3 -> "monolithicSparse"
                         [] img = 4 -> "streamOptimized"
                         [] OTHER   -> "twoGbMaxExtentFlat",
     has_header    |-> img \in {3, 4},
     extents       |-> VmdkDescriptor(img)]

\* The VMDK struct for what VMDK::new built.
VmdkStruct(img, built) ==
    [kind |-> "VMDK", img |-> img,
     extent_descriptions |-> built.extent_descriptions,
     extent_files |-> built.extent_files,
     position |-> 0]

\* The engine VMDK::new returns for a test image.
VmdkEngine(img) == VmdkStruct(img, VmdkNew(VmdkParsed(img), VmdkSparseMeta(img), GoodEnv))

\* read_raw_extent: seek, then one File::read.
read_raw_extent(file, buf, start_offset) ==
    LET data == FileRead(file, start_offset, Len(buf))
    IN  [res |-> "ok", n |-> Len(data), buf |-> BufWrite(buf, 0, data)]

\* The for loop of read_sparse_extent, from grain on.
RECURSIVE SparseLoop(_, _, _, _, _, _, _)
SparseLoop(file, meta, start_offset, grain, last_grain, buf, read_size) ==
    LET gs          == meta.grain_number * SectorBytes
        first_grain == start_offset \div gs
        remaining   == Len(buf) - read_size
    IN  IF grain >= last_grain THEN [res |-> "ok", n |-> read_size, buf |-> buf]
        ELSE IF grain + 1 > Len(meta.grain_directory)
        THEN [res |-> "err", n |-> 0, buf |-> buf]
        ELSE IF remaining < 0 THEN [res |-> "panic", n |-> 0, buf |-> buf]
        ELSE
          LET sector == meta.grain_directory[grain + 1]
              additional_offset == IF grain = first_grain
                                   THEN start_offset - grain * gs ELSE 0
          IN  IF sector = 0
              THEN IF grain = first_grain
                   THEN LET upper_bound == Min(gs - additional_offset, remaining)
                        IN  SparseLoop(file, meta, start_offset, grain + 1, last_grain,
                                       BufWrite(buf, read_size, Rep(0, upper_bound)),
                                       read_size + remaining)
                   ELSE LET remaining_read == Min(remaining, gs)
                        IN  SparseLoop(file, meta, start_offset, grain + 1, last_grain,
                                       BufWrite(buf, read_size, Rep(0, remaining_read)),
                                       read_size + remaining_read)
              ELSE IF meta.compressed
              THEN
                LET stream == Inflate(FileRead(file, sector * SectorBytes + 12, Len(file)))
                    decompressed == Slice(stream, 0, Min(Len(stream), gs))
                    bytes_read == Len(decompressed)
                    ub0 == Min(remaining, gs)
                    ub1 == IF grain = first_grain /\ additional_offset + ub0 > gs
                           THEN gs - additional_offset ELSE ub0
                    upper_bound == IF ub1 > bytes_read THEN bytes_read ELSE ub1
                IN  IF additional_offset > upper_bound
                    THEN [res |-> "panic", n |-> 0, buf |-> buf]
                    ELSE SparseLoop(file, meta, start_offset, grain + 1, last_grain,
                                    BufWrite(buf, read_size + additional_offset,
                                             Slice(decompressed, additional_offset, upper_bound)),
                                    read_size + upper_bound - additional_offset)
              ELSE
                LET ub0 == Min(remaining, gs)
                    upper_bound == IF grain = first_grain /\ additional_offset + ub0 > gs
                                   THEN gs - additional_offset ELSE ub0
                    data == FileRead(file, sector * SectorBytes + additional_offset, upper_bound)
                IN  SparseLoop(file, meta, start_offset, grain + 1, last_grain,
                               BufWrite(buf, read_size, data), read_size + Len(data))

\* read_sparse_extent
read_sparse_extent(file, buf, start_offset, meta) ==
    LET gs == meta.grain_number * SectorBytes
    IN  SparseLoop(file, meta, start_offset, start_offset \div gs,
                   (start_offset + Len(buf) + gs - 1) \div gs, buf, 0)

\* VMDKExtentFile::read_data
read_data(img, extent, start_pos, buf) ==
    CASE extent.extent_description.extent_type \in {"FLAT", "VMFS"} ->
            read_raw_extent(VmdkFile(img, extent.file), buf, start_pos)
      [] extent.extent_description.extent_type = "SPARSE" ->
            IF extent.sparse_extent_metadata = NoMeta
            THEN [res |-> "err", n |-> 0, buf |-> buf]
            ELSE read_sparse_extent(VmdkFile(img, extent.file), buf, start_pos,
                                    extent.sparse_extent_metadata)
      [] extent.extent_description.extent_type = "ZERO" ->
            [res |-> "ok", n |-> Len(buf), buf |-> Rep(0, Len(buf))]
      [] OTHER -> [res |-> "err", n |-> 0, buf |-> buf]

\* The filter of VMDK::vmdk_read: the extent holds the start of the range,
\* or its end, or lies strictly inside it.
VmdkSelected(x, position, buf_len) ==
    LET start == x.extent_description.extent_start_sector * SectorBytes
        end   == (x.extent_description.extent_start_sector
                  + x.extent_description.sector_number) * SectorBytes
    IN  \/ (position >= start /\ position < end)
        \/ (position + buf_len >= start /\ position + buf_len < end)
        \/ (position < start /\ position + buf_len > end)

RECURSIVE VmdkReadLoop(_, _, _, _, _)

\* The end of one turn of the loop: r is what read_data returned for the
\* part buf[buffer_start..buffer_end] of the caller's buffer.
VmdkReadStep(img, rest, position, buf, total_read, buffer_start, r) ==
    IF r.res # "ok" THEN [res |-> r.res, n |-> 0, buf |-> buf]
    ELSE VmdkReadLoop(img, rest, position, BufWrite(buf, buffer_start, r.buf),
                      total_read + r.n)

\* The while loop of VMDK::vmdk_read over the selected extents.
VmdkReadLoop(img, extents, position, buf, total_read) ==
    IF extents = <<>> THEN [res |-> "ok", n |-> total_read, buf |-> buf]
    ELSE
      LET extent          == Head(extents)
          start_of_extent == extent.extent_description.extent_start_sector * SectorBytes
          end_of_extent   == (extent.extent_description.extent_start_sector
                              + extent.extent_description.sector_number) * SectorBytes
          start_position  == IF position >= start_of_extent
                             THEN position - start_of_extent ELSE 0
          end_position    == IF position + Len(buf) >= end_of_extent
                             THEN end_of_extent - start_of_extent
                             ELSE position + Len(buf) - start_of_extent
          buffer_start    == IF start_of_extent <= position
                             THEN 0 ELSE start_of_extent - position
          buffer_end      == buffer_start + end_position - start_position
      IN  IF buffer_end < buffer_start \/ buffer_end > Len(buf)
          THEN [res |-> "panic", n |-> 0, buf |-> buf]
          ELSE VmdkReadStep(img, Tail(extents), position, buf, total_read, buffer_start,
                            read_data(img, extent, start_position,
                                      Slice(buf, buffer_start, buffer_end)))

\* What vmdk_read returns and leaves behind: r is the outcome of its loop.
\* bytes is what the caller takes as read: buf[..n].
VmdkReadDone(e, len, r) ==
    IF r.res # "ok" THEN [res |-> r.res, eng |-> e, n |-> 0, bytes |-> <<>>]
    ELSE [res |-> "ok", eng |-> [e EXCEPT !.position = e.position + r.n],
          n |-> r.n, bytes |-> Slice(r.buf, 0, Min(r.n, len))]

\* VMDK::vmdk_read
vmdk_read(e, len) ==
    VmdkReadDone(e, len,
                 VmdkReadLoop(e.img,
                              SelectSeq(e.extent_files,
                                        LAMBDA x : VmdkSelected(x, e.position, len)),
                              e.position, Rep(Stale, len), 0))

\* VMDK::vmdk_seek
vmdk_seek(e, whence, o) ==
    LET extents == e.extent_descriptions
        total_bytes == SumSeq([i \in 1..Len(extents) |-> extents[i].sector_number])
                       * SectorBytes
        new_position == CASE whence = "Start"   -> o
                          [] whence = "Current" -> e.position + o
                          [] OTHER              -> total_bytes + o
    IN  IF extents = <<>> THEN [res |-> "err", eng |-> e, ret |-> 0]
        ELSE IF new_position >= 0 /\ new_position <= total_bytes
        THEN [res |-> "ok", eng |-> [e EXCEPT !.position = new_position],
              ret |-> new_position]
        ELSE [res |-> "err", eng |-> e, ret |-> 0]

\* impl Clone for VMDK: every extent file that names a file is opened again
\* by path (a new open file description); one that cannot be is left out.
VmdkClone(e, env) ==
    [e EXCEPT !.extent_files =
        SelectSeq(e.extent_files,
                  LAMBDA x : x.extent_description.extent_file_name # NoName
                             /\ x.extent_description.extent_file_name \in env.open)]


\* ==================================================================== AFF4
\* Test images: chunk_size Aff4ChunkBytes, two chunks per segment, the map
\* A = (v 0, two chunks, "d", t 0), a hole of one chunk, B = (v three chunks,
\* one chunk, "d", t two chunks).  1: no compression, padded member names.
\* 2: lz4 with the first chunk stored as-is, unpadded member names.
\* 3: snappy.  4: zlib.  5: a compression method the parser does not know.
Aff4Images == {1, 2, 3, 4, 5}

\* Bytes per AFF4 chunk of the test images.
Aff4ChunkBytes == 2

Aff4ChunksInSegment == 2

Aff4ImageSize(img) == 4 * Aff4ChunkBytes

Aff4Compression(img) ==
    CASE img = 1 -> "None" [] img = 2 -> "Lz4" [] img = 3 -> "Snappy"
      [] img = 4 -> "Zlib" [] OTHER -> "Unknown"

\* self.intervals, sorted and merged by parse_map_stream_with_idx.
Aff4Intervals(img) ==
    << [virtual_offset |-> 0, length |-> 2 * Aff4ChunkBytes,
        target_urn |-> "d", target_offset |-> 0],
       [virtual_offset |-> 3 * Aff4ChunkBytes, length |-> Aff4ChunkBytes,
        target_urn |-> "d", target_offset |-> 2 * Aff4ChunkBytes] >>

\* The image byte stored at offset t of the data stream "d".
Aff4TargetByte(t) ==
    IF t < 2 * Aff4ChunkBytes THEN ImageByte(t) ELSE ImageByte(t + Aff4ChunkBytes)

\* A segment member name: the base joined with the segment number, padded
\* ("p": {:08} and {:08x} give the same text for the segments of the test
\* images) or unpadded ("u").
MemberName(base, style, seg) == <<base, IF style = "dec" THEN "u" ELSE "p", seg>>

NoMember == <<"", "", 0>>

Aff4Style(img) == IF img = 2 THEN "dec" ELSE "dec8"

\* The segments of the data stream and the chunks each holds.
Aff4SegmentChunks(seg) == IF seg = 0 THEN Aff4ChunksInSegment ELSE 1

\* zip_directory.contains_key for a segment member (each has its .index).
Aff4HasMember(img, member) ==
    member \in {MemberName("d", Aff4Style(img), seg) : seg \in {0, 1}}

Aff4ChunkPlain(seg, chunk_index) ==
    [i \in 1..Aff4ChunkBytes |->
        Aff4TargetByte((seg * Aff4ChunksInSegment + chunk_index) * Aff4ChunkBytes + i - 1)]

\* lz4 blocks are modelled by (byte, count) pairs.
RECURSIVE Lz4Compress(_)
Lz4Compress(d) == IF d = <<>> THEN <<>> ELSE <<Head(d), 1>> \o Lz4Compress(Tail(d))

RECURSIVE Lz4Expand(_)
Lz4Expand(p) ==
    IF Len(p) < 2 THEN <<>> ELSE Rep(p[1], p[2]) \o Lz4Expand(Tail(Tail(p)))

\* block::decompress_into(&compressed, &mut out) with out of chunk_size
\* zeroes: an error when the block does not fit.
Lz4DecompressInto(p, size) ==
    LET d == Lz4Expand(p)
    IN  IF Len(d) > size THEN [res |-> "err", kind |-> "Other", out |-> <<>>]
        ELSE [res |-> "ok", kind |-> "", out |-> d \o Rep(0, size - Len(d))]

\* The stored form of a chunk in its segment member.
Aff4ChunkStored(img, seg, chunk_index) ==
    IF Aff4Compression(img) = "Lz4" /\ ~(seg = 0 /\ chunk_index = 0)
    THEN Lz4Compress(Aff4ChunkPlain(seg, chunk_index))
    ELSE Aff4ChunkPlain(seg, chunk_index)

\* The payload of a segment member and its .index records (c_off, c_len).
Aff4MemberPayload(img, member) ==
    Concat([c \in 1..Aff4SegmentChunks(member[3]) |->
                Aff4ChunkStored(img, member[3], c - 1)])

Aff4Index(img, member) ==
    [c \in 1..Aff4SegmentChunks(member[3]) |->
        [c_off |-> SumSeq([k \in 1..(c - 1) |->
                              Len(Aff4ChunkStored(img, member[3], k - 1))]),
         c_len |-> Len(Aff4ChunkStored(img, member[3], c - 1))]]

\* ChunkCache::default()
Aff4CacheDefault == [member |-> NoMember, chunk_index |-> 0, data |-> <<>>]

\* The engine AFF4::new returns for a test image.
Aff4New(img) ==
    [kind |-> "AFF4", img |-> img, cache |-> Aff4CacheDefault, position |-> 0]

\* AFF4::find_interval_index: the last interval that starts at or before pos
\* (0 for None; intervals are numbered from 1 here).
find_interval_index(intervals, pos) ==
    LET at == {i \in 1..Len(intervals) : intervals[i].virtual_offset <= pos}
    IN  IF at = {} THEN 0 ELSE CHOOSE i \in at : \A j \in at : j <= i

\* AFF4::interval_covers
interval_covers(intervals, idx, pos) ==
    /\ pos >= intervals[idx].virtual_offset
    /\ pos < intervals[idx].virtual_offset + intervals[idx].length

\* AFF4::next_interval_start: the first start after pos, -1 for None.
next_interval_start(intervals, pos) ==
    LET after == {i \in 1..Len(intervals) : intervals[i].virtual_offset >= pos + 1}
    IN  IF after = {} THEN -1
        ELSE intervals[CHOOSE i \in after : \A j \in after : i <= j].virtual_offset

\* AFF4::resolve_segment_member: <<member, off_in_seg>>, or <<>> for None.
resolve_segment_member(img, base_stream, logical_off) ==
    LET seg_size   == Aff4ChunkBytes * Aff4ChunksInSegment
        seg_index  == logical_off \div seg_size
        off_in_seg == logical_off % seg_size
        m_dec8     == MemberName(base_stream, "dec8", seg_index)
        m_hex8     == MemberName(base_stream, "hex8", seg_index)
        m_dec      == MemberName(base_stream, "dec", seg_index)
    IN  IF seg_size = 0 THEN <<>>
        ELSE IF Aff4HasMember(img, m_dec8) THEN <<m_dec8, off_in_seg>>
        ELSE IF Aff4HasMember(img, m_hex8) THEN <<m_hex8, off_in_seg>>
        ELSE IF Aff4HasMember(img, m_dec) THEN <<m_dec, off_in_seg>>
        ELSE <<>>

\* A decoding step that hands out the stored bytes of a chunk whatever the
\* declared method is.
Aff4DecodeAsStored(img, compressed, c_len) ==
    [res |-> "ok", kind |-> "", out |-> compressed]

\* The decoding step of load_chunk_into_cache: compressed is the stored
\* chunk, c_len its length in the index.  kind is the io::ErrorKind of an
\* error.
Aff4Decode(img, compressed, c_len) ==
    CASE Aff4Compression(img) = "None" -> [res |-> "ok", kind |-> "", out |-> compressed]
      [] Aff4Compression(img) = "Lz4" ->
            IF c_len = Aff4ChunkBytes
            THEN [res |-> "ok", kind |-> "", out |-> compressed]
            ELSE Lz4DecompressInto(compressed, Aff4ChunkBytes)
      [] OTHER -> [res |-> "err", kind |-> "Unsupported", out |-> <<>>]

\* The end of load_chunk_into_cache: the decoded chunk enters the cache.
\* loads counts the chunks the call read and decoded.
Aff4CacheFill(e, member, chunk_index, decoded) ==
    IF decoded.res # "ok"
    THEN [res |-> "err", kind |-> decoded.kind, cache |-> e.cache, loads |-> 1]
    ELSE [res |-> "ok", kind |-> "", loads |-> 1,
          cache |-> [member |-> member, chunk_index |-> chunk_index,
                     data |-> decoded.out]]

\* load_chunk_into_cache with the index entry ent of the chunk
\* (read_index_entry) and the payload of the member.
Aff4LoadEntry(e, member, chunk_index, ent, payload) ==
    IF ent.c_len = 0 \/ ent.c_off + ent.c_len > Len(payload)
    THEN [res |-> "err", kind |-> "Other", cache |-> e.cache, loads |-> 0]
    ELSE Aff4CacheFill(e, member, chunk_index,
                       Aff4Decode(e.img, Slice(payload, ent.c_off, ent.c_off + ent.c_len),
                                  ent.c_len))

\* AFF4::load_chunk_into_cache past the cache test (with read_index_entry):
\* the chunk is located, read and decoded into the cache.
LoadChunk(e, member, chunk_index) ==
    IF ~Aff4HasMember(e.img, member)
    THEN [res |-> "err", kind |-> "Other", cache |-> e.cache, loads |-> 0]
    ELSE IF chunk_index + 1 > Aff4SegmentChunks(member[3])
    THEN [res |-> "err", kind |-> "Other", cache |-> e.cache, loads |-> 0]
    ELSE Aff4LoadEntry(e, member, chunk_index,
                       Aff4Index(e.img, member)[chunk_index + 1],
                       Aff4MemberPayload(e.img, member))

\* A cache test that compares the chunk index only, not the member.
load_chunk_into_cache_any_member(e, member, chunk_index) ==
    IF e.cache.chunk_index = chunk_index /\ e.cache.data # <<>>
    THEN [res |-> "ok", kind |-> "", cache |-> e.cache, loads |-> 0]
    ELSE LoadChunk(e, member, chunk_index)

\* AFF4::load_chunk_into_cache: the cache after it.
load_chunk_into_cache(e, member, chunk_index) ==
    IF e.cache.member = member /\ e.cache.chunk_index = chunk_index
       /\ e.cache.data # <<>>
    THEN [res |-> "ok", kind |-> "", cache |-> e.cache, loads |-> 0]
    ELSE LoadChunk(e, member, chunk_index)

RECURSIVE Aff4ReadLoop(_, _, _)

\* One turn of the loop inside a mapped interval, the chunk being loaded:
\* lc is what load_chunk_into_cache returned.
Aff4Copy(e, out, want_total, within_chunk, can_iv, lc) ==
    IF lc.res # "ok" THEN [res |-> "err", kind |-> lc.kind, eng |-> e, out |-> out]
    ELSE IF within_chunk >= Len(lc.cache.data)
    THEN [res |-> "err", kind |-> "Other",
          eng |-> [e EXCEPT !.cache = lc.cache], out |-> out]
    ELSE Aff4ReadLoop([e EXCEPT !.cache = lc.cache,
                                !.position = e.position
                                    + Min(Len(lc.cache.data) - within_chunk, can_iv)],
                      out \o Slice(lc.cache.data, within_chunk,
                                   within_chunk
                                     + Min(Len(lc.cache.data) - within_chunk, can_iv)),
                      want_total)

\* One turn of the loop inside a mapped interval: resolved is what
\* resolve_segment_member returned.
Aff4Mapped(e, out, want_total, can_iv, resolved) ==
    IF resolved = <<>> THEN [res |-> "err", kind |-> "Other", eng |-> e, out |-> out]
    ELSE Aff4Copy(e, out, want_total, resolved[2] % Aff4ChunkBytes, can_iv,
                  load_chunk_into_cache(e, resolved[1], resolved[2] \div Aff4ChunkBytes))

\* A hole taken to last until the end of the read, whatever follows it.
Aff4HoleToEndOfRead(e, out, want_total, next) ==
    Aff4ReadLoop([e EXCEPT !.position = e.position + (want_total - Len(out))],
                 out \o Rep(0, want_total - Len(out)),
                 want_total)

\* One turn of the loop in a hole that ends at next (the next interval, or
\* the end of the image): zeroes.
Aff4Hole(e, out, want_total, next) ==
    Aff4ReadLoop([e EXCEPT !.position =
                      e.position + Min(Max(next - e.position, 0), want_total - Len(out))],
                 out \o Rep(0, Min(Max(next - e.position, 0), want_total - Len(out))),
                 want_total)

\* The while loop of impl Read for AFF4; e carries position and cache.
Aff4ReadLoop(e, out, want_total) ==
    LET pos       == e.position
        size      == Aff4ImageSize(e.img)
        intervals == Aff4Intervals(e.img)
        idx       == find_interval_index(intervals, pos)
    IN  IF ~(Len(out) < want_total /\ pos < size)
        THEN [res |-> "ok", kind |-> "", eng |-> e, out |-> out]
        ELSE IF ~(idx # 0 /\ interval_covers(intervals, idx, pos))
        THEN IF next_interval_start(intervals, pos) = -1
             THEN Aff4Hole(e, out, want_total, size)
             ELSE Aff4Hole(e, out, want_total, next_interval_start(intervals, pos))
        ELSE Aff4Mapped(e, out, want_total,
                        Min(intervals[idx].length - (pos - intervals[idx].virtual_offset),
                            want_total - Len(out)),
                        resolve_segment_member(e.img, intervals[idx].target_urn,
                                               intervals[idx].target_offset
                                                 + (pos - intervals[idx].virtual_offset)))

\* What impl Read for AFF4 returns: r is the outcome of its loop.
Aff4ReadDone(r) ==
    [res |-> r.res, kind |-> r.kind, eng |-> r.eng,
     n |-> IF r.res = "ok" THEN Len(r.out) ELSE 0,
     bytes |-> IF r.res = "ok" THEN r.out ELSE <<>>]

\* impl Read for AFF4
Aff4Read(e, len) ==
    IF len = 0 \/ e.position >= Aff4ImageSize(e.img)
    THEN [res |-> "ok", kind |-> "", eng |-> e, n |-> 0, bytes |-> <<>>]
    ELSE Aff4ReadDone(Aff4ReadLoop(e, <<>>, Min(len, Aff4ImageSize(e.img) - e.position)))

\* impl Seek for AFF4: only a negative position is refused.
Aff4Seek(e, whence, o) ==
    LET new_pos == CASE whence = "Start"   -> o
                     [] whence = "Current" -> e.position + o
                     [] OTHER              -> Aff4ImageSize(e.img) + o
    IN  IF new_pos < 0 THEN [res |-> "err", eng |-> e, ret |-> 0]
        ELSE [res |-> "ok", eng |-> [e EXCEPT !.position = new_pos], ret |-> new_pos]


\* ============================================================== dispatcher
\* The outcome r of an engine that keeps its position in the struct, with
\* the file cursors fds it leaves as they are.
WithOfd(r, fds) == [x \in DOMAIN r \cup {"ofd"} |-> IF x = "ofd" THEN fds ELSE r[x]]

\* impl Read for Body: the call goes to the engine the Body holds.
BodyRead(e, fds, len) ==
    CASE e.kind = "EWF"  -> WithOfd(ewf_read(e, len), fds)
      [] e.kind = "VMDK" -> WithOfd(vmdk_read(e, len), fds)
      [] OTHER           -> RawRead(e, fds, len)

\* impl Seek for Body
BodySeek(e, fds, whence, o) ==
    CASE e.kind = "EWF"  -> WithOfd(EwfSeek(e, whence, o), fds)
      [] e.kind = "VMDK" -> WithOfd(vmdk_seek(e, whence, o), fds)
      [] OTHER           -> RawSeek(e, fds, whence, o)

\* impl Clone for EWF: the fields are copied, the segment descriptors
\* duplicated (they are only used through seek-then-read).
EwfClone(e) == e

\* impl Clone for AFF4
Aff4Clone(e) == e

\* #[derive(Clone)] for Body / BodyFormat
BodyClone(e) ==
    CASE e.kind = "EWF"  -> EwfClone(e)
      [] e.kind = "VMDK" -> VmdkClone(e, GoodEnv)
      [] OTHER           -> RawClone(e)

\* Any engine: the three a Body holds, and the AFF4 engine used directly.
EngRead(e, fds, len) ==
    IF e.kind = "AFF4" THEN WithOfd(Aff4Read(e, len), fds) ELSE BodyRead(e, fds, len)

EngSeek(e, fds, whence, o) ==
    IF e.kind = "AFF4" THEN WithOfd(Aff4Seek(e, whence, o), fds)
    ELSE BodySeek(e, fds, whence, o)

EngClone(e) == IF e.kind = "AFF4" THEN Aff4Clone(e) ELSE BodyClone(e)

\* image_size of an engine.
ImageSize(e) ==
    CASE e.kind = "EWF"  -> max_offset(e.volume)
      [] e.kind = "VMDK" ->
            SumSeq([i \in 1..Len(e.extent_descriptions) |->
                       e.extent_descriptions[i].sector_number]) * SectorBytes
      [] e.kind = "AFF4" -> Aff4ImageSize(e.img)
      [] OTHER           -> Len(RawFile)

\* What seek(Current, 0) returns: the position a caller can observe.
RetOf(r) == IF r.res = "ok" THEN r.ret ELSE -1

Tell(e, fds) == RetOf(EngSeek(e, fds, "Current", 0))

\* ================================================================= actions
Handles == {1, 2}

\* A thread that is not inside a call.
Idle == [pc |-> "idle", off |-> -1, segment |-> 0, number |-> 0]

Other(h) == 3 - h

NoOp == [op |-> "none", h |-> 0, res |-> "ok", whence |-> "Start", off |-> 0,
         ret |-> 0, len |-> 0, n |-> 0, bytes |-> <<>>, tell0 |-> 0, from |-> -1,
         was |-> -1, peer0 |-> -1, arg |-> <<>>]

Alive == last.res \notin {"panic", "exit"}

SeekOffsets(e, whence) ==
    IF whence = "Start" THEN 0..(ImageSize(e) + 1) ELSE (-MaxOff)..MaxOff

\* The position of the other handle's engine, -1 when there is none.
PeerTell(h) ==
    IF eng[Other(h)] = NoEngine THEN -1 ELSE Tell(eng[Other(h)], ofd)

\* The end of a call of seek on handle h: r is what the engine returned.
SeekDone(h, whence, o, r) ==
    /\ r.res = "ok" => r.ret <= ImageSize(eng[h]) + MaxOff
    /\ eng' = [eng EXCEPT ![h] = r.eng]
    /\ ofd' = r.ofd
    /\ UNCHANGED thr
    /\ last' = [NoOp EXCEPT !.op = "seek", !.h = h, !.res = r.res,
                            !.whence = whence, !.off = o, !.ret = r.ret,
                            !.tell0 = Tell(eng[h], ofd),
                            !.peer0 = PeerTell(h)]

\* One call of seek on handle h.
Seek(h, whence, o) ==
    /\ Alive
    /\ eng[h] # NoEngine
    /\ o \in SeekOffsets(eng[h], whence)
    /\ SeekDone(h, whence, o, EngSeek(eng[h], ofd, whence, o))

\* The end of a call of read on handle h: r is what the engine returned.
ReadDone(h, len, r) ==
    /\ eng' = [eng EXCEPT ![h] = r.eng]
    /\ ofd' = r.ofd
    /\ UNCHANGED thr
    /\ last' = [NoOp EXCEPT !.op = "read", !.h = h, !.res = r.res,
                            !.len = len, !.n = r.n, !.bytes = r.bytes,
                            !.tell0 = Tell(eng[h], ofd),
                            !.peer0 = PeerTell(h),
                            !.from = IF last.op = "seek" /\ last.h = h
                                        /\ last.res = "ok"
                                        /\ last.whence = "Start"
                                     THEN last.off ELSE -1,
                            !.was = IF last.op = "seek" /\ last.h = h
                                       /\ last.res = "ok"
                                       /\ last.whence = "Start"
                                    THEN last.tell0 ELSE -1]

\* One call of read on handle h with a buffer of len bytes.
Read(h, len) ==
    /\ Alive
    /\ eng[h] # NoEngine
    /\ ReadDone(h, len, EngRead(eng[h], ofd, len))

\* clone() of the engine of handle 1 into handle 2.
Clone ==
    /\ Alive
    /\ eng[2] = NoEngine
    /\ eng' = [eng EXCEPT ![2] = EngClone(eng[1])]
    /\ last' = [NoOp EXCEPT !.op = "clone", !.h = 2]
    /\ UNCHANGED <<ofd, thr>>

InitEngines ==
    {RawNew(1)} \cup {EwfNew(i) : i \in EwfImages}
                \cup {VmdkEngine(i) : i \in VmdkImages}
                \cup {Aff4New(i) : i \in Aff4Images}

Init ==
    /\ \E e \in InitEngines : eng = [h \in Handles |-> IF h = 1 THEN e ELSE NoEngine]
    /\ ofd = [f \in {1} |-> 0]
    /\ thr = [t \in Handles |-> Idle]
    /\ last = NoOp

\* A single engine under any sequence of seeks and reads.
Next ==
    \/ \E w \in Whence, o \in (-MaxOff)..(4 * MaxLen + 2) : Seek(1, w, o)
    \/ \E len \in 0..MaxLen : Read(1, len)

Spec == Init /\ [][Next]_vars

\* An engine and its clone, used in turn: seeks from the start and reads.
CloneEngines == {RawNew(1), EwfNew(1), VmdkEngine(1), VmdkEngine(3), Aff4New(1)}

InitClone ==
    /\ \E e \in CloneEngines : eng = [h \in Handles |-> IF h = 1 THEN e ELSE NoEngine]
    /\ ofd = [f \in {1} |-> 0]
    /\ thr = [t \in Handles |-> Idle]
    /\ last = NoOp

NextClone ==
    \/ \E h \in Handles, o \in 0..MaxOff : Seek(h, "Start", o)
    \/ \E h \in Handles, len \in 1..MaxLen : Read(h, len)
    \/ Clone

SpecClone == InitClone /\ [][NextClone]_vars


\* ------------------------------------------------ two threads, two clones
\* Each thread owns one clone of an EWF engine.  The segment descriptors of
\* the clones are duplicates (try_clone) of the same open file descriptions,
\* so ofd[segment] is the one cursor both use.  A thread calls
\* seek(Start, o) with o the start of the first or of the second chunk,
\* which runs read_chunk in two steps (file.seek, then read_exact), and
\* then read with a buffer the cached chunk can serve.
ConcImages == {3, 4}

\* ewf_seek up to and including file.seek of read_chunk.
ConcSeekStart(t, o) ==
    /\ Alive
    /\ thr[t].pc = "idle"
    /\ LET e      == eng[t]
           volume == e.volume
           chunk_number == o \div chunk_size(volume)
       IN  /\ o \in {0, chunk_size(volume)}
           /\ IF chunk_number >= volume.chunk_count
              THEN /\ last' = [NoOp EXCEPT !.op = "seek", !.h = t, !.res = "err",
                                           !.off = o]
                   /\ thr' = [thr EXCEPT ![t] = Idle]
                   /\ UNCHANGED <<eng, ofd>>
              ELSE LET segment == EwfFindSegment(e.chunks, 1, chunk_number)
                       local   == chunk_number - e.chunks[segment][1].chunk_number
                   IN  /\ ofd' = [ofd EXCEPT ![segment] =
                                     e.chunks[segment][local + 1].data_offset]
                       /\ thr' = [thr EXCEPT ![t] = [pc |-> "read_exact", off |-> o,
                                                     segment |-> segment,
                                                     number |-> local]]
                       /\ last' = [NoOp EXCEPT !.op = "file.seek", !.h = t, !.off = o]
                       /\ UNCHANGED eng

\* read_exact and the rest of read_chunk and ewf_seek.
ConcReadExact(t) ==
    /\ Alive
    /\ thr[t].pc = "read_exact"
    /\ LET e  == eng[t]
           cs == chunk_size(e.volume)
           rc == ReadChunkAt(e, thr[t].segment, thr[t].number, ofd[thr[t].segment])
       IN  /\ ofd' = [ofd EXCEPT ![thr[t].segment] = rc.cursor]
           /\ eng' = IF rc.res # "ok" THEN eng
                     ELSE [eng EXCEPT ![t] =
                             [e EXCEPT !.cached_chunk = [number  |-> thr[t].number,
                                                         segment |-> thr[t].segment,
                                                         ptr     |-> thr[t].off % cs,
                                                         data    |-> rc.data],
                                       !.position = thr[t].off]]
           /\ thr' = [thr EXCEPT ![t] = [Idle EXCEPT !.off = IF rc.res = "ok"
                                                              THEN thr[t].off ELSE -1]]
           /\ last' = [NoOp EXCEPT !.op = "seek", !.h = t, !.res = rc.res,
                                   !.off = thr[t].off, !.ret = thr[t].off]

\* read right after the seek, with a buffer the cached chunk can serve.
ConcRead(t, len) ==
    /\ Alive
    /\ thr[t].pc = "idle"
    /\ thr[t].off >= 0
    /\ len <= chunk_size(eng[t].volume) - eng[t].cached_chunk.ptr
    /\ LET r == ewf_read(eng[t], len)
       IN  /\ eng' = [eng EXCEPT ![t] = r.eng]
           /\ thr' = [thr EXCEPT ![t] = Idle]
           /\ last' = [NoOp EXCEPT !.op = "read", !.h = t, !.res = r.res,
                                   !.len = len, !.n = r.n, !.bytes = r.bytes,
                                   !.from = thr[t].off]
           /\ UNCHANGED ofd

InitConc ==
    /\ \E img \in ConcImages :
          eng = [h \in Handles |-> IF h = 1 THEN EwfNew(img) ELSE EngClone(EwfNew(img))]
    /\ ofd = [seg \in {1, 2} |-> 0]
    /\ thr = [t \in Handles |-> Idle]
    /\ last = NoOp

NextConc ==
    \/ \E t \in Handles, o \in 0..(4 * MaxLen) : ConcSeekStart(t, o)
    \/ \E t \in Handles : ConcReadExact(t)
    \/ \E t \in Handles, len \in 1..MaxLen : ConcRead(t, len)

SpecConc == InitConc /\ [][NextConc]_vars


\* ------------------------------------------------------ opening a VMDK
\* The descriptors and the file systems VMDK::new is tried on: one or two
\* extent lines, one of them with the start sector column (`RW 1 FLAT "b" 0`),
\* each extent file present or not, its sparse header and its grain directory
\* readable or not.
NewExtents ==
    {ExtentDescriptor("FLAT", ExtentSectors, "a"),
     ExtentDescriptor("FLAT", ExtentSectors, "b"),
     [ExtentDescriptor("FLAT", ExtentSectors, "b") EXCEPT !.extent_start_sector = 0],
     ExtentDescriptor("SPARSE", 3 * ExtentSectors, "s"),
     ExtentDescriptor("ZERO", ExtentSectors, NoName)}

NewExtentLists == {<<x>> : x \in NewExtents} \cup {<<x, y>> : x, y \in NewExtents}

NewParsed ==
    [parent_cid_ok : BOOLEAN,
     create_type   : {"monolithicSparse", "twoGbMaxExtentSparse"},
     has_header    : BOOLEAN,
     extents       : NewExtentLists]

NewEnvs == [open : SUBSET {"a", "b", "s"}, header : SUBSET {"s"}, gd : SUBSET {"s"}]

\* The end of VMDK::new: built is what it returns.
VmdkOpened(d, env, built) ==
    /\ eng' = [eng EXCEPT ![1] = IF built.res = "ok" THEN VmdkStruct(0, built)
                                 ELSE NoEngine]
    /\ last' = [NoOp EXCEPT !.op = "new", !.h = 1, !.res = built.res,
                            !.arg = <<d, env>>]
    /\ UNCHANGED <<ofd, thr>>

\* VMDK::new on a descriptor d in a file system env.  A file that starts
\* with the sparse magic is itself a readable sparse extent.
VmdkOpen(d, env) ==
    /\ last = NoOp
    /\ d.has_header => (VmdkSelf \in env.open /\ VmdkSelf \in env.header)
    /\ VmdkOpened(d, env, VmdkNew(d, VmdkSparseMeta(3), env))

InitNew ==
    /\ eng = [h \in Handles |-> NoEngine]
    /\ ofd = [f \in {1} |-> 0]
    /\ thr = [t \in Handles |-> Idle]
    /\ last = NoOp

NextNew == \E d \in NewParsed, env \in NewEnvs : VmdkOpen(d, env)

SpecNew == InitNew /\ [][NextNew]_vars


\* ------------------------------------------------------ opening a Body
\* A file is described by the constructors that accept it; RAW::new accepts
\* every file that can be opened, so a file another constructor accepts.
ProbedFiles ==
    {f \in [ewf : BOOLEAN, vmdk : BOOLEAN, aff4 : BOOLEAN, raw : BOOLEAN] :
        (f.ewf \/ f.vmdk \/ f.aff4) => f.raw}

Formats == {"auto", "ewf", "vmdk", "raw", "aff4", "aff4l", "e01"}

Exit == [res |-> "exit", format |-> NoEngine]

\* Body::detect_format: the constructors are tried in the order of the code.
detect_format(f) ==
    IF f.ewf THEN [res |-> "ok", format |-> EwfNew(1)]
    ELSE IF f.vmdk THEN [res |-> "ok", format |-> VmdkEngine(1)]
    ELSE IF f.raw THEN [res |-> "ok", format |-> RawNew(1)]
    ELSE Exit

\* Body::new
BodyNew(f, format) ==
    CASE format = "auto" -> detect_format(f)
      [] format = "ewf"  -> IF f.ewf THEN [res |-> "ok", format |-> EwfNew(1)] ELSE Exit
      [] format = "vmdk" -> IF f.vmdk THEN [res |-> "ok", format |-> VmdkEngine(1)] ELSE Exit
      [] format = "raw"  -> IF f.raw THEN [res |-> "ok", format |-> RawNew(1)] ELSE Exit
      [] OTHER           -> Exit

\* The end of Body::new: body is what it returns.
BodyOpened(f, format, body) ==
    /\ eng' = [eng EXCEPT ![1] = body.format]
    /\ last' = [NoOp EXCEPT !.op = "open", !.h = 1, !.res = body.res,
                            !.arg = <<f, format>>]
    /\ UNCHANGED <<ofd, thr>>

\* Body::new on a file f with a format string.
BodyOpen(f, format) ==
    /\ last = NoOp
    /\ BodyOpened(f, format, BodyNew(f, format))

\* A Body is opened, then read from the start.
NextDetect ==
    \/ \E f \in ProbedFiles, format \in Formats : BodyOpen(f, format)
    \/ \E o \in 0..MaxOff : Seek(1, "Start", o)
    \/ \E len \in 1..MaxLen : Read(1, len)

SpecDetect == InitNew /\ [][NextDetect]_vars


\* ============================================================== BodySlice
\* The end of BodySlice::new: s is what body.seek(Start(slice_start))
\* returned on the clone.
SliceNewDone(slice_start, slice_len, s) ==
    IF s.res # "ok" THEN [res |-> s.res, slice |-> NoEngine, ofd |-> s.ofd]
    ELSE [res |-> "ok",
          slice |-> [kind |-> "slice", body |-> s.eng, slice_start |-> slice_start,
                     slice_len |-> slice_len, pos |-> 0],
          ofd |-> s.ofd]

\* BodySlice::new
BodySliceNew(src, fds, slice_start, slice_len) ==
    SliceNewDone(slice_start, slice_len,
                 BodySeek(BodyClone(src), fds, "Start", slice_start))

\* The end of read on a BodySlice: r is what body.read(&mut buf[..max])
\* returned.
SliceReadDone(sl, r) ==
    IF r.res # "ok"
    THEN [res |-> r.res, slice |-> [sl EXCEPT !.body = r.eng], ofd |-> r.ofd,
          n |-> 0, bytes |-> <<>>]
    ELSE [res |-> "ok",
          slice |-> [sl EXCEPT !.body = r.eng, !.pos = sl.pos + r.n],
          ofd |-> r.ofd, n |-> r.n, bytes |-> r.bytes]

\* A read that hands the whole buffer to the body.
SliceReadUncapped(sl, fds, len) ==
    IF sl.pos >= sl.slice_len
    THEN [res |-> "ok", slice |-> sl, ofd |-> fds, n |-> 0, bytes |-> <<>>]
    ELSE SliceReadDone(sl, BodyRead(sl.body, fds, len))

\* impl Read for BodySlice
SliceRead(sl, fds, len) ==
    IF sl.pos >= sl.slice_len
    THEN [res |-> "ok", slice |-> sl, ofd |-> fds, n |-> 0, bytes |-> <<>>]
    ELSE SliceReadDone(sl, BodyRead(sl.body, fds, Min(len, sl.slice_len - sl.pos)))

\* The end of seek on a BodySlice: s is what body.seek returned.
SliceSeekDone(sl, new_pos, s) ==
    IF s.res # "ok" THEN [res |-> s.res, slice |-> sl, ofd |-> s.ofd, ret |-> 0]
    ELSE [res |-> "ok", slice |-> [sl EXCEPT !.body = s.eng, !.pos = new_pos],
          ofd |-> s.ofd, ret |-> new_pos]

\* seek on a BodySlice past the bound test: at is self.slice_start + new_pos.
SliceSeekAt(sl, fds, new_pos, at) ==
    IF at.res # "ok" THEN [res |-> at.res, slice |-> sl, ofd |-> fds, ret |-> 0]
    ELSE SliceSeekDone(sl, new_pos, BodySeek(sl.body, fds, "Start", at.val))

\* seek on a BodySlice once the new position is computed: np is the outcome
\* of the match on pos, np.val the value before the cast to u64.
SliceSeekTo(sl, fds, np, checks) ==
    IF np.res # "ok" THEN [res |-> np.res, slice |-> sl, ofd |-> fds, ret |-> 0]
    ELSE IF AsU64(np.val) > sl.slice_len
    THEN [res |-> "err", slice |-> sl, ofd |-> fds, ret |-> 0]
    ELSE SliceSeekAt(sl, fds, AsU64(np.val),
                     AddU64(sl.slice_start, AsU64(np.val), checks))

\* impl Seek for BodySlice; checks: the build has overflow checks.
SliceSeek(sl, fds, whence, o, checks) ==
    CASE whence = "Start"   -> SliceSeekTo(sl, fds, [res |-> "ok", val |-> o], checks)
      [] whence = "Current" ->
            SliceSeekTo(sl, fds, AddI64(AsI64(sl.pos), o, checks), checks)
      [] OTHER              ->
            SliceSeekTo(sl, fds, AddI64(AsI64(sl.slice_len), o, checks), checks)

\* ---------------------------------------------------- a slice of a Body
\* Handle 1 holds the Body, handle 2 the BodySlice made from it.
SliceBodies == {RawNew(1), EwfNew(1), EwfNew(3), VmdkEngine(1), VmdkEngine(3)}

\* The end of BodySlice::new(&eng[1], ..): r is what it returned.
SliceCreated(slice_start, slice_len, r) ==
    /\ eng' = [eng EXCEPT ![2] = r.slice]
    /\ ofd' = r.ofd
    /\ last' = [NoOp EXCEPT !.op = "slice.new", !.h = 2, !.res = r.res,
                            !.off = slice_start, !.len = slice_len]
    /\ UNCHANGED thr

SliceCreate(slice_start, slice_len) ==
    /\ Alive
    /\ eng[2] = NoEngine
    /\ SliceCreated(slice_start, slice_len,
                    BodySliceNew(eng[1], ofd, slice_start, slice_len))

\* The end of a read on the slice: r is what it returned.
SliceWasRead(len, r) ==
    /\ eng' = [eng EXCEPT ![2] = r.slice]
    /\ ofd' = r.ofd
    /\ last' = [NoOp EXCEPT !.op = "slice.read", !.h = 2, !.res = r.res,
                            !.len = len, !.n = r.n, !.bytes = r.bytes,
                            !.tell0 = eng[2].pos]
    /\ UNCHANGED thr

SliceReadCall(len) ==
    /\ Alive
    /\ eng[2] # NoEngine
    /\ SliceWasRead(len, SliceRead(eng[2], ofd, len))

\* The positions the slice is taken to: those near the test images and the
\* ends of i64 and u64.
SlicePositions ==
    0..(MaxLen + 1) \cup {I64Max, I64Max + 1, U64Modulus - 1}

\* The end of a seek on the slice: r is what it returned.
SliceWasSought(whence, o, checks, r) ==
    /\ r.res = "ok" => r.ret \in SlicePositions
    /\ eng' = [eng EXCEPT ![2] = r.slice]
    /\ ofd' = r.ofd
    /\ last' = [NoOp EXCEPT !.op = "slice.seek", !.h = 2, !.res = r.res,
                            !.whence = whence, !.off = o, !.ret = r.ret,
                            !.tell0 = eng[2].pos,
                            !.arg = <<eng[2], ofd>>]
    /\ UNCHANGED thr

SliceSeekCall(whence, o, checks) ==
    /\ Alive
    /\ eng[2] # NoEngine
    /\ whence = "Start" => o >= 0
    /\ SliceWasSought(whence, o, checks, SliceSeek(eng[2], ofd, whence, o, checks))

InitSlice ==
    /\ \E e \in SliceBodies : eng = [h \in Handles |-> IF h = 1 THEN e ELSE NoEngine]
    /\ ofd = [f \in {1} |-> 0]
    /\ thr = [t \in Handles |-> Idle]
    /\ last = NoOp

\* The lengths a slice is made with: BodySlice::new takes any u64.
SliceLens == 0..(MaxLen + 1) \cup {U64Modulus - 1}

\* The offsets a slice is sought with, the ends of i64 among them.
SliceOffsets == (-MaxOff - 1)..(MaxLen + 2) \cup {I64Min, I64Max}

NextSlice ==
    \/ \E slice_start \in 0..MaxOff, slice_len \in SliceLens :
          SliceCreate(slice_start, slice_len)
    \/ \E len \in 0..MaxLen : SliceReadCall(len)
    \/ \E w \in Whence, o \in SliceOffsets, checks \in BOOLEAN :
          SliceSeekCall(w, o, checks)

SpecSlice == InitSlice /\ [][NextSlice]_vars


\* ------------------------------------------- a slice and its owner in turn
\* The owner (handle 1) is sought and read between the calls on the slice.
WindowBodies == {RawNew(1), EwfNew(1), VmdkEngine(1)}

\* The end of a call on the owner: r is what its engine returned.
OwnerDone(op, r) ==
    /\ eng' = [eng EXCEPT ![1] = r.eng]
    /\ ofd' = r.ofd
    /\ last' = [NoOp EXCEPT !.op = op, !.h = 1, !.res = r.res]
    /\ UNCHANGED thr

\* body.seek(SeekFrom::Start(o)) on the owner.
OwnerSeek(o) ==
    /\ Alive
    /\ eng[2] # NoEngine
    /\ OwnerDone("owner.seek", BodySeek(eng[1], ofd, "Start", o))

\* body.read on the owner.
OwnerRead(len) ==
    /\ Alive
    /\ eng[2] # NoEngine
    /\ OwnerDone("owner.read", BodyRead(eng[1], ofd, len))

InitWindow ==
    /\ \E e \in WindowBodies : eng = [h \in Handles |-> IF h = 1 THEN e ELSE NoEngine]
    /\ ofd = [f \in {1} |-> 0]
    /\ thr = [t \in Handles |-> Idle]
    /\ last = NoOp

NextWindow ==
    \/ \E slice_start \in 0..MaxOff, slice_len \in 1..MaxLen :
          SliceCreate(slice_start, slice_len)
    \/ \E len \in 1..MaxLen : SliceReadCall(len)
    \/ \E o \in 0..MaxLen : SliceSeekCall("Start", o, FALSE)
    \/ \E o \in 0..MaxOff : OwnerSeek(o)
    \/ \E len \in 1..MaxLen : OwnerRead(len)

SpecWindow == InitWindow /\ [][NextWindow]_vars


\* ===================================================== VMDK descriptor lines
\* Longest descriptor line tried.
MaxLineLen == 6

\* The characters of the lines: a letter, a period, a blank, the equals sign,
\* the double quote and a non-ASCII letter.
LineChars == {"k", ".", " ", "=", "\"", "e'"}

\* [\w\.] (a Unicode-aware \w), \s and [^"] on those characters.
KeyChars == {"k", "e'", "."}
SpaceChars == {" "}
NonQuoteChars == LineChars \ {"\""}

\* The length of the longest run of characters of class from index i on.
RECURSIVE Run(_, _, _)
Run(line, i, class) ==
    IF i <= Len(line) /\ line[i] \in class THEN 1 + Run(line, i + 1, class) ELSE 0

\* 1 when line has a double quote at index i, else 0: "? there.
QuoteAt(line, i) == IF i <= Len(line) /\ line[i] = "\"" THEN 1 ELSE 0

\* A value between its quotes that is handed out with them.
KvValueKeepsQuotes(line, key, at) ==
    IF at + QuoteAt(line, at) + Run(line, at + QuoteAt(line, at), NonQuoteChars)
          + QuoteAt(line, at + QuoteAt(line, at)
                              + Run(line, at + QuoteAt(line, at), NonQuoteChars))
       = Len(line) + 1
    THEN <<key, SubSeq(line, at, Len(line))>>
    ELSE <<>>

\* "?([^"]*)"?$ from index at on, after the key was captured: the greedy
\* attempt (the quote when there is one, the longest run without quotes, the
\* quote when there is one) reaches the end of the line whenever an attempt
\* does.  <<>> is None.
KvValue(line, key, at) ==
    IF at + QuoteAt(line, at) + Run(line, at + QuoteAt(line, at), NonQuoteChars)
          + QuoteAt(line, at + QuoteAt(line, at)
                              + Run(line, at + QuoteAt(line, at), NonQuoteChars))
       = Len(line) + 1
    THEN <<key, SubSeq(line, at + QuoteAt(line, at),
                       at + QuoteAt(line, at)
                          + Run(line, at + QuoteAt(line, at), NonQuoteChars) - 1)>>
    ELSE <<>>

\* \s*=\s* from index at on, after the key.
KvEquals(line, key, at) ==
    IF at + Run(line, at, SpaceChars) <= Len(line)
       /\ line[at + Run(line, at, SpaceChars)] = "="
    THEN KvValue(line, key,
                 at + Run(line, at, SpaceChars) + 1
                    + Run(line, at + Run(line, at, SpaceChars) + 1, SpaceChars))
    ELSE <<>>

\* parse_key_value_pair: the captures of
\* ^([\w\.]+)\s*=\s*"?([^"]*)"?$ on line, <<key, value>>, or <<>> for None.
parse_key_value_pair(line) ==
    IF Run(line, 1, KeyChars) = 0 THEN <<>>
    ELSE KvEquals(line, SubSeq(line, 1, Run(line, 1, KeyChars)),
                  Run(line, 1, KeyChars) + 1)

\* The lines handed to the parser.
Lines == UNION {[1..n -> LineChars] : n \in 0..MaxLineLen}

\* parse_key_value_pair(line) is called on the line last read.
ParseLine ==
    /\ last.op = "line"
    /\ last' = [last EXCEPT !.op = "parsed", !.bytes = parse_key_value_pair(last.arg)]
    /\ UNCHANGED <<eng, ofd, thr>>

InitParse ==
    /\ eng = [h \in Handles |-> NoEngine]
    /\ ofd = [f \in {1} |-> 0]
    /\ thr = [t \in Handles |-> Idle]
    /\ \E line \in Lines : last = [NoOp EXCEPT !.op = "line", !.arg = line]

NextParse == ParseLine

SpecParse == InitParse /\ [][NextParse]_vars


\* =================================================== VMDK descriptor files
\* Most lines fed to the parser after the start of a descriptor.
MaxLines == 3

DESCRIPTOR_FILE_SIGNATURE == "# Disk DescriptorFile"
DESCRIPTOR_FILE_EXTENT_SECTION_SIGNATURE == "# Extent description"
DESCRIPTOR_FILE_CHANGE_TRACKING_SECTION_SIGNATURE == "# Change Tracking File"
DESCRIPTOR_FILE_DISK_DATABASE_SECTION_SIGNATURE == "# The Disk Data Base"

\* The lines of the descriptors tried: the four markers, one of them
\* indented, another comment, a blank line, a header key, an extent line,
\* a ddb key and the change tracking key.
DescriptorLines ==
    {DESCRIPTOR_FILE_SIGNATURE, DESCRIPTOR_FILE_EXTENT_SECTION_SIGNATURE,
     DESCRIPTOR_FILE_CHANGE_TRACKING_SECTION_SIGNATURE,
     DESCRIPTOR_FILE_DISK_DATABASE_SECTION_SIGNATURE,
     "  # Extent description ", "# DDB", "",
     "version=1", "RW 4192256 ZERO", "ddb.adapterType = \"ide\"",
     "changeTrackPath=\"c\""}

\* The start of the descriptor of the parser's test, up to its extent line.
DescriptorStart ==
    <<"", DESCRIPTOR_FILE_SIGNATURE, "version=1", "CID=123a5678",
      "parentCID=ffffffff", "createType=\"2GbMaxExtentSparse\"", "",
      DESCRIPTOR_FILE_EXTENT_SECTION_SIGNATURE, "RW 4192256 ZERO">>

\* str::trim on those lines.
Trim(line) == IF line = "  # Extent description " THEN "# Extent description" ELSE line

\* str::starts_with("#") on the trimmed lines.
StartsWithHash(line) ==
    line \in {DESCRIPTOR_FILE_SIGNATURE, DESCRIPTOR_FILE_EXTENT_SECTION_SIGNATURE,
              DESCRIPTOR_FILE_CHANGE_TRACKING_SECTION_SIGNATURE,
              DESCRIPTOR_FILE_DISK_DATABASE_SECTION_SIGNATURE, "# DDB"}

NoSection == "none"

\* get_descriptor_section: the section a line starts, NoSection for None.
get_descriptor_section(line) ==
    IF StartsWithHash(line)
    THEN CASE line = DESCRIPTOR_FILE_SIGNATURE -> "header"
           [] line = DESCRIPTOR_FILE_EXTENT_SECTION_SIGNATURE -> "extent"
           [] line = DESCRIPTOR_FILE_DISK_DATABASE_SECTION_SIGNATURE -> "ddb"
           [] line = DESCRIPTOR_FILE_CHANGE_TRACKING_SECTION_SIGNATURE -> "change_tracking"
           [] OTHER -> NoSection
    ELSE NoSection

\* parse_key_value_pair on those lines: <<key, value>>, <<>> for None.
KeyValueOf(line) ==
    CASE line = "version=1" -> <<"version", "1">>
      [] line = "CID=123a5678" -> <<"CID", "123a5678">>
      [] line = "parentCID=ffffffff" -> <<"parentCID", "ffffffff">>
      [] line = "createType=\"2GbMaxExtentSparse\"" -> <<"createType", "2GbMaxExtentSparse">>
      [] line = "ddb.adapterType = \"ide\"" -> <<"ddb.adapterType", "ide">>
      [] line = "changeTrackPath=\"c\"" -> <<"changeTrackPath", "c">>
      [] OTHER -> <<>>

\* impl FromStr for VMDKExtentDescriptor on those lines: <<descriptor>>,
\* <<>> for Err.
ExtentOf(line) ==
    IF line = "RW 4192256 ZERO" THEN <<ExtentDescriptor("ZERO", 4192256, NoName)>>
    ELSE <<>>

\* HashMap::insert: the entry of the key is replaced.
Insert(map, kv) == {x \in map : x[1] # kv[1]} \cup {kv}

\* The locals of from_str before the first line.
DescriptorLocals ==
    [kind |-> "descriptor", current_section |-> "", file_header_hashmap |-> {},
     extent_descriptions |-> <<>>, ddb_hashmap |-> {}, change_track_path |-> ""]

\* A comment line that forgets the current section unless it is a marker.
SectionResetByComment(line, current_section) ==
    IF get_descriptor_section(line) # NoSection
    THEN get_descriptor_section(line) ELSE ""

\* get_descriptor_section(unwrapped_line).unwrap_or(current_section)
SectionAfterComment(line, current_section) ==
    IF get_descriptor_section(line) # NoSection
    THEN get_descriptor_section(line) ELSE current_section

\* One turn of the loop of from_str over a trimmed line.
DescriptorTurn(st, unwrapped_line) ==
    IF StartsWithHash(unwrapped_line)
    THEN [st EXCEPT !.current_section =
                        SectionAfterComment(unwrapped_line, st.current_section)]
    ELSE CASE st.current_section = "header" /\ KeyValueOf(unwrapped_line) # <<>> ->
                [st EXCEPT !.file_header_hashmap =
                               Insert(st.file_header_hashmap, KeyValueOf(unwrapped_line))]
           [] st.current_section = "extent" /\ ExtentOf(unwrapped_line) # <<>> ->
                [st EXCEPT !.extent_descriptions =
                               st.extent_descriptions \o ExtentOf(unwrapped_line)]
           [] st.current_section = "ddb" /\ KeyValueOf(unwrapped_line) # <<>> ->
                [st EXCEPT !.ddb_hashmap =
                               Insert(st.ddb_hashmap, KeyValueOf(unwrapped_line))]
           [] st.current_section = "change_tracking"
              /\ KeyValueOf(unwrapped_line) # <<>>
              /\ KeyValueOf(unwrapped_line)[1] = "changeTrackPath" ->
                [st EXCEPT !.change_track_path = KeyValueOf(unwrapped_line)[2]]
           [] OTHER -> st

\* The loop of from_str over lines.
RECURSIVE DescriptorLoop(_, _)
DescriptorLoop(st, lines) ==
    IF lines = <<>> THEN st
    ELSE DescriptorLoop(DescriptorTurn(st, Trim(Head(lines))), Tail(lines))

\* VMDKHeader::try_from on the header keys: the keys it requires are there.
HeaderTryFrom(map) ==
    IF \A key \in {"version", "CID", "parentCID", "createType"} :
           \E x \in map : x[1] = key
    THEN "ok" ELSE "err"

\* from_str reads the next line.
DescriptorLine(line) ==
    /\ eng[1].kind = "descriptor"
    /\ last.op \in {"from_str", "line"}
    /\ Len(last.arg) < Len(last.from) + MaxLines
    /\ eng' = [eng EXCEPT ![1] = DescriptorTurn(eng[1], Trim(line))]
    /\ last' = [last EXCEPT !.op = "line", !.arg = Append(last.arg, line)]
    /\ UNCHANGED <<ofd, thr>>

\* from_str is out of lines and returns.
DescriptorEnd ==
    /\ eng[1].kind = "descriptor"
    /\ last.op \in {"from_str", "line"}
    /\ last' = [last EXCEPT !.op = "parsed",
                            !.res = HeaderTryFrom(eng[1].file_header_hashmap)]
    /\ UNCHANGED <<eng, ofd, thr>>

\* from_str was called, on an empty text or on one that starts as the test's.
InitDescriptor ==
    /\ \E start \in {<<>>, DescriptorStart} :
          /\ eng = [h \in Handles |->
                       IF h = 1 THEN DescriptorLoop(DescriptorLocals, start)
                       ELSE NoEngine]
          /\ last = [NoOp EXCEPT !.op = "from_str", !.arg = start, !.from = start]
    /\ ofd = [f \in {1} |-> 0]
    /\ thr = [t \in Handles |-> Idle]

NextDescriptor ==
    \/ \E line \in DescriptorLines : DescriptorLine(line)
    \/ DescriptorEnd

SpecDescriptor == InitDescriptor /\ [][NextDescriptor]_vars


\* ========================================================== AFF4 map stream
\* Most 28-byte records in a map stream tried.
MaxRecords == 3

\* image_size of the maps tried, and their idx table (two target strings).
MapImageSize == 3
MapTargets == <<"aff4://d", "aff4://e">>

MapRecord(v_off, extent_len, target_off, index) ==
    [v_off |-> v_off, extent_len |-> extent_len, target_off |-> target_off,
     index |-> index]

\* The records tried: one byte long, at each virtual offset of the image, on
\* the first target offsets of either target; a zero-length record; one at
\* image_size; one with an index past the idx table; one whose target range
\* ends past the largest u64.
MapRecords ==
    {MapRecord(v, 1, tg, ix) : v \in 0..(MapImageSize - 1), tg \in 0..2, ix \in 0..1}
        \cup {MapRecord(1, 0, 1, 0), MapRecord(MapImageSize, 1, 0, 0),
              MapRecord(0, 1, 0, 2), MapRecord(0, 1, U64Modulus - 1, 0)}

MapStreams == UNION {[1..n -> MapRecords] : n \in 0..MaxRecords}

\* AFF4::aff4_uri_to_zip_base: "aff4://uuid/path" -> "aff4%3A%2F%2Fuuid/path"
aff4_uri_to_zip_base(uri) ==
    CASE uri = "aff4://d" -> "aff4%3A%2F%2Fd"
      [] uri = "aff4://e" -> "aff4%3A%2F%2Fe"
      [] OTHER -> uri

\* The first loop of parse_map_stream_with_idx: zero-length records are
\* skipped, a record at or past image_size or one whose virtual range
\* overflows is a Format error.
RECURSIVE MapUsable(_, _)
MapUsable(records, image_size) ==
    IF records = <<>> THEN [res |-> "ok", records |-> <<>>]
    ELSE IF Head(records).extent_len = 0 THEN MapUsable(Tail(records), image_size)
    ELSE IF Head(records).v_off >= image_size
            \/ Head(records).v_off + Head(records).extent_len >= U64Modulus
    THEN [res |-> "Format", records |-> <<>>]
    ELSE [res |-> MapUsable(Tail(records), image_size).res,
          records |-> <<Head(records)>> \o MapUsable(Tail(records), image_size).records]

\* sort_by_key: a stable sort by virtual offset; r goes behind the records
\* that do not start after it.
RECURSIVE SortedInsert(_, _)
SortedInsert(sorted, r) ==
    IF sorted = <<>> THEN <<r>>
    ELSE IF Head(sorted).v_off <= r.v_off
    THEN <<Head(sorted)>> \o SortedInsert(Tail(sorted), r)
    ELSE <<r>> \o sorted

RECURSIVE SortByVirtual(_)
SortByVirtual(records) ==
    IF records = <<>> THEN <<>>
    ELSE SortedInsert(SortByVirtual(SubSeq(records, 1, Len(records) - 1)),
                      records[Len(records)])

\* The second loop: an index past the idx table is a Format error, the
\* others become intervals on the zip base of their target.
MapIntervals(records, targets) ==
    IF \E i \in 1..Len(records) : records[i].index >= Len(targets)
    THEN [res |-> "Format", intervals |-> <<>>]
    ELSE [res |-> "ok",
          intervals |-> [i \in 1..Len(records) |->
                            [virtual_offset |-> records[i].v_off,
                             length |-> records[i].extent_len,
                             target_urn |-> aff4_uri_to_zip_base(targets[records[i].index + 1]),
                             target_offset |-> records[i].target_off]]]

\* A merge test that does not look at the target.
ContiguousAnyTarget(lst, iv, target_end) ==
    /\ lst.virtual_offset + lst.length = iv.virtual_offset
    /\ target_end = iv.target_offset

\* contiguous_virtual && same_target && contiguous_target; target_end is
\* last.target_offset + last.length as the build computes it.
Contiguous(lst, iv, target_end) ==
    /\ lst.virtual_offset + lst.length = iv.virtual_offset
    /\ lst.target_urn = iv.target_urn
    /\ target_end = iv.target_offset

\* The merge loop from the next interval on.
RECURSIVE MergeLoop(_, _, _)

MergeStep(merged, intervals, checks, sum) ==
    IF sum.res = "panic" THEN [res |-> "panic", intervals |-> <<>>]
    ELSE IF Contiguous(merged[Len(merged)], Head(intervals), sum.val)
    THEN MergeLoop([merged EXCEPT ![Len(merged)].length = @ + Head(intervals).length],
                   Tail(intervals), checks)
    ELSE MergeLoop(Append(merged, Head(intervals)), Tail(intervals), checks)

MergeLoop(merged, intervals, checks) ==
    IF intervals = <<>> THEN [res |-> "ok", intervals |-> merged]
    ELSE IF merged = <<>> THEN MergeLoop(<<Head(intervals)>>, Tail(intervals), checks)
    ELSE MergeStep(merged, intervals, checks,
                   AddU64(merged[Len(merged)].target_offset,
                          merged[Len(merged)].length, checks))

\* The rest of parse_map_stream_with_idx once the usable records are known.
MapParsed(usable, targets, checks) ==
    IF usable.res # "ok" THEN [res |-> usable.res, intervals |-> <<>>]
    ELSE IF usable.records = <<>> THEN [res |-> "Format", intervals |-> <<>>]
    ELSE IF MapIntervals(SortByVirtual(usable.records), targets).res # "ok"
    THEN [res |-> "Format", intervals |-> <<>>]
    ELSE MergeLoop(<<>>, MapIntervals(SortByVirtual(usable.records), targets).intervals,
                   checks)

\* AFF4::parse_map_stream_with_idx on the records of a map stream.
parse_map_stream_with_idx(records, targets, image_size, checks) ==
    MapParsed(MapUsable(records, image_size), targets, checks)

\* The map stream of an image is parsed (by AFF4::new).
ParseMap(checks) ==
    /\ last.op = "map"
    /\ last' = [last EXCEPT
                   !.op = "parsed",
                   !.res = parse_map_stream_with_idx(last.arg, MapTargets,
                                                     MapImageSize, checks).res,
                   !.bytes = parse_map_stream_with_idx(last.arg, MapTargets,
                                                       MapImageSize, checks).intervals]
    /\ UNCHANGED <<eng, ofd, thr>>

InitMap ==
    /\ eng = [h \in Handles |-> NoEngine]
    /\ ofd = [f \in {1} |-> 0]
    /\ thr = [t \in Handles |-> Idle]
    /\ \E records \in MapStreams : last = [NoOp EXCEPT !.op = "map", !.arg = records]

NextMap == \E checks \in BOOLEAN : ParseMap(checks)

SpecMap == InitMap /\ [][NextMap]_vars


\* ================================================== AFF4 legacy zip locator
\* The scan window of find_legacy_eocd_offset (4096 in the code) and the
\* longest file scanned.
EocdWindow == 6
MaxFileLen == 12

\* 50 4B 05 06
EOCD_SIGNATURE == <<80, 75, 5, 6>>

\* A file of n zero bytes with the signature written at each offset of at,
\* and the first bytes of a signature, cut short, at each offset of cut.
EocdFile(n, at, cut) ==
    [i \in 1..n |->
        IF \E s \in at : s < i /\ i <= s + Len(EOCD_SIGNATURE)
        THEN EOCD_SIGNATURE[i - (CHOOSE s \in at : s < i /\ i <= s + Len(EOCD_SIGNATURE))]
        ELSE IF \E s \in cut : s < i /\ i <= s + Len(EOCD_SIGNATURE) - 1
        THEN EOCD_SIGNATURE[i - (CHOOSE s \in cut : s < i /\ i <= s + Len(EOCD_SIGNATURE) - 1)]
        ELSE 0]

\* The files scanned: every length, up to two signatures at any two places
\* that do not overlap, and at most one signature cut short.
EocdFiles ==
    {EocdFile(n, at, cut) :
        n \in 0..MaxFileLen,
        at \in {s \in SUBSET (0..(MaxFileLen - Len(EOCD_SIGNATURE))) :
                   /\ Cardinality(s) <= 2
                   /\ \A a, b \in s : a < b => a + Len(EOCD_SIGNATURE) <= b},
        cut \in {{}, {0}, {MaxFileLen - EocdWindow - 1}, {MaxFileLen - 3}}}

\* buffer.windows(4).rposition(|w| w == EOCD_SIGNATURE): the last offset of
\* the signature in buffer, -1 for None.
RPosition(buffer) ==
    LET hits == {off \in 0..(Len(buffer) - Len(EOCD_SIGNATURE)) :
                    SubSeq(buffer, off + 1, off + Len(EOCD_SIGNATURE)) = EOCD_SIGNATURE}
    IN  IF hits = {} THEN -1 ELSE CHOOSE off \in hits : \A other \in hits : other <= off

\* A scan whose windows do not overlap.
EocdNextCursorNoSeam(start_pos) == start_pos

\* cursor = start_pos + (EOCD_SIGNATURE.len() as u64 - 1)
EocdNextCursor(start_pos) == start_pos + (Len(EOCD_SIGNATURE) - 1)

\* The while loop of find_legacy_eocd_offset.
RECURSIVE EocdScan(_, _)

EocdWindowDone(file, start_pos, off) ==
    IF off # -1 THEN [res |-> "ok", ret |-> start_pos + off]
    ELSE IF start_pos = 0 THEN [res |-> "Format", ret |-> 0]
    ELSE EocdScan(file, EocdNextCursor(start_pos))

EocdScanFrom(file, cursor, start_pos) ==
    EocdWindowDone(file, start_pos, RPosition(Slice(file, start_pos, cursor)))

EocdScan(file, cursor) ==
    IF ~(cursor > 0) THEN [res |-> "Format", ret |-> 0]
    ELSE EocdScanFrom(file, cursor,
                      IF cursor > EocdWindow THEN cursor - EocdWindow ELSE 0)

\* AFF4::find_legacy_eocd_offset
find_legacy_eocd_offset(file) == EocdScan(file, Len(file))

\* The end of the central directory of a file is looked for.
FindEocd ==
    /\ last.op = "file"
    /\ last' = [last EXCEPT !.op = "eocd",
                            !.res = find_legacy_eocd_offset(last.arg).res,
                            !.ret = find_legacy_eocd_offset(last.arg).ret]
    /\ UNCHANGED <<eng, ofd, thr>>

InitEocd ==
    /\ eng = [h \in Handles |-> NoEngine]
    /\ ofd = [f \in {1} |-> 0]
    /\ thr = [t \in Handles |-> Idle]
    /\ \E file \in EocdFiles : last = [NoOp EXCEPT !.op = "file", !.arg = file]

NextEocd == FindEocd

SpecEocd == InitEocd /\ [][NextEocd]_vars


\* ------------------------------------------------- EWF segment sections
\* EWF::parse_segment walks the chain of section descriptors of one segment
\* file.  A segment file is modelled by the descriptors it holds: a function
\* from the offsets in SegmentOffsets to [section_type, next_section_offset].
\* Its first 13 bytes are a valid file header (EwfHeader::new succeeded), and
\* its length is SegmentEnd.

\* Most descriptors pushed to self.sections that the model tells apart.
MaxSections == 4

\* The offset of the first descriptor: right after the 13-byte header.
FirstSectionOffset == 13

\* Where section descriptors lie in the test segment files.
SegmentOffsets == {13, 14, 15}

\* The length of the test segment files.
SegmentEnd == 16

\* The section types of the test files: "done", and "sectors", which reads
\* nothing more from the file.
SegmentTypes == {"done", "sectors"}

SegmentFiles ==
    [SegmentOffsets ->
        [section_type : SegmentTypes,
         next_section_offset : SegmentOffsets \cup {SegmentEnd}]]

\* EwfSectionDescriptor::new(file, offset).  File::read returns fewer bytes
\* (none at or after the end of the file) and leaves the rest of the zeroed
\* buffers alone; the 8 signature bytes at offset 0 hold 0xff, which is not
\* UTF-8, so String::from_utf8(..).unwrap() panics there.
EwfSectionDescriptor(file, offset) ==
    IF offset \in DOMAIN file
    THEN [res |-> "ok", section_type |-> file[offset].section_type,
          next_section_offset |-> file[offset].next_section_offset]
    ELSE IF offset = 0
    THEN [res |-> "panic", section_type |-> "", next_section_offset |-> 0]
    ELSE [res |-> "ok", section_type |-> "", next_section_offset |-> 0]

\* The test at the end of a turn of the loop of parse_segment.
SectionWalkBreaks(current_offset, section) ==
    \/ current_offset = section.next_section_offset
    \/ section.section_type = "done"

\* One turn of the loop of parse_segment: last.ret is current_offset, last.n
\* is self.sections.len() (counted up to MaxSections).  After the break the
\* function pushes the file and the chunks and returns Ok(self).
SegmentTurn ==
    /\ last.op = "segment"
    /\ LET section == EwfSectionDescriptor(last.arg, last.ret)
       IN  IF section.res = "panic"
           THEN last' = [last EXCEPT !.op = "parsed_segment", !.res = "panic"]
           ELSE IF SectionWalkBreaks(last.ret, section)
           THEN last' = [last EXCEPT !.op = "parsed_segment", !.res = "ok",
                                     !.n = Min(last.n + 1, MaxSections)]
           ELSE last' = [last EXCEPT !.ret = section.next_section_offset,
                                     !.n = Min(last.n + 1, MaxSections)]
    /\ UNCHANGED <<eng, ofd, thr>>

InitSegment ==
    /\ eng = [h \in Handles |-> NoEngine]
    /\ ofd = [f \in {1} |-> 0]
    /\ thr = [t \in Handles |-> Idle]
    /\ \E file \in SegmentFiles :
           last = [NoOp EXCEPT !.op = "segment", !.arg = file,
                               !.ret = FirstSectionOffset]

NextSegment == SegmentTurn

SpecSegment == InitSegment /\ [][NextSegment]_vars

\* parse_segment runs on the calling thread with nothing to wait for: a turn
\* that can be taken is taken.
SpecSegmentFair == SpecSegment /\ WF_vars(SegmentTurn)


\* ================================================= properties of one engine

\* C1: on every engine a successful read that returns n bytes advances the
\* position by exactly n: seek(Current, 0) right after the read returns the
\* position before the read plus n.
C1_ReadAdvancesPosition ==
    (last.op = "read" /\ last.res = "ok")
        => Tell(eng[last.h], ofd) = last.tell0 + last.n

\* What a read of any length issued now would return.
NextReads(e, fds) == {EngRead(e, fds, len) : len \in 1..MaxLen}

\* C2: on every engine seek(End, 0) succeeds and returns image_size, and a
\* read issued immediately afterwards returns Ok(0).
C2_SeekEndThenReadZero ==
    (last.op = "seek" /\ last.whence = "End" /\ last.off = 0)
        => /\ last.res = "ok"
           /\ last.ret = ImageSize(eng[last.h])
           /\ \A r \in NextReads(eng[last.h], ofd) : r.res = "ok" /\ r.n = 0

\* C3: on every engine a seek whose resolved position is greater than
\* image_size is rejected: a seek that succeeds lands at or before image_size.
C3_SeekPastEndRejected ==
    (last.op = "seek" /\ last.res = "ok") => last.ret <= ImageSize(eng[last.h])

\* C4: every non-error read with a non-empty buffer issued at a position
\* below image_size returns at least one byte (so a read loop terminates with
\* the bytes asked for).
C4_ReadMakesProgress ==
    (last.op = "read" /\ last.res = "ok" /\ last.len > 0
        /\ last.tell0 >= 0 /\ last.tell0 < ImageSize(eng[last.h]))
        => last.n >= 1

\* A newly constructed engine over the image of e, and new file cursors.
FreshEngine(e) ==
    CASE e.kind = "EWF"  -> EwfNew(e.img)
      [] e.kind = "VMDK" -> VmdkEngine(e.img)
      [] e.kind = "AFF4" -> Aff4New(e.img)
      [] OTHER           -> RawNew(e.file)

FreshFds(fds) == [f \in DOMAIN fds |-> 0]

\* The outcome of seek(Start, o) followed by read(len) on engine e.
Outcome(r) == <<r.res, r.n, r.bytes>>

ReadAfter(s, len) ==
    IF s.res # "ok" THEN <<s.res, 0, <<>> >> ELSE Outcome(EngRead(s.eng, s.ofd, len))

SeekRead(e, fds, o, len) == ReadAfter(EngSeek(e, fds, "Start", o), len)

\* C5: on every engine seek(Start, o) followed by read(L) yields the same
\* bytes and the same count whatever the earlier seeks and reads were: the
\* outcome is that of the same two calls on a newly opened engine.
C5_SeekStartReadIsStateless ==
    (last.op = "read" /\ last.from >= 0)
        => <<last.res, last.n, last.bytes>>
              = SeekRead(FreshEngine(eng[last.h]), FreshFds(ofd), last.from, last.len)

\* C5 happens: on an engine that keeps a chunk cache, the cursor was moved
\* back from further on in the image, to an offset inside another chunk, and
\* the read returned a full buffer.
C5_Witness ==
    /\ last.op = "read" /\ last.res = "ok"
    /\ eng[last.h].kind \in {"EWF", "AFF4"}
    /\ last.from = 1
    /\ last.was > 4
    /\ last.n = MaxLen


\* ================================================ properties of two clones

\* C6: cursor movements in a clone do not affect the engine it was cloned
\* from, nor the reverse: a seek or read on one handle leaves the position
\* of the other handle's engine unchanged.
C6_ClonesIndependent ==
    (last.op \in {"seek", "read"} /\ eng[Other(last.h)] # NoEngine)
        => PeerTell(last.h) = last.peer0


\* C7: two clones used concurrently by two threads, each thread touching
\* only its own clone, each get what they get when run alone: a completed
\* seek(Start, o) ends as it does on a newly opened engine, and the read
\* that follows returns the same count and bytes.
C7_ConcurrentClonesAsAlone ==
    /\ (last.op = "seek")
          => last.res = EngSeek(FreshEngine(eng[last.h]), ofd, "Start", last.off).res
    /\ (last.op = "read")
          => <<last.res, last.n, last.bytes>>
                = SeekRead(FreshEngine(eng[last.h]), ofd, last.from, last.len)


\* =========================================== properties of construction

\* An extent line whose file cannot be used: it names a file that cannot be
\* opened, or a sparse file whose header or grain directory cannot be read.
Unusable(x, env) ==
    /\ x.extent_file_name # NoName
    /\ \/ x.extent_file_name \notin env.open
       \/ /\ x.extent_type = "SPARSE"
          /\ (x.extent_file_name \notin env.header \/ x.extent_file_name \notin env.gd)

\* C8: VMDK::new is all-or-nothing: it returns Err when an extent file named
\* in the descriptor cannot be opened or its sparse header or grain directory
\* cannot be read, and never returns Ok with a VMDK whose extent set lacks an
\* extent listed in the descriptor.
C8_NewAllOrNothing ==
    (last.op = "new")
        => /\ (\E i \in 1..Len(SetPaths(last.arg[1])) :
                    Unusable(SetPaths(last.arg[1])[i], last.arg[2]))
                  => last.res = "err"
           /\ (last.res = "ok")
                  => \A i \in 1..Len(eng[1].extent_descriptions) :
                        \E j \in 1..Len(eng[1].extent_files) :
                            /\ eng[1].extent_files[j].extent_description
                                  = eng[1].extent_descriptions[i]
                            /\ (eng[1].extent_descriptions[i].extent_type = "SPARSE"
                                  => eng[1].extent_files[j].sparse_extent_metadata # NoMeta)


\* The engine the probing order EWF, VMDK, AFF4, RAW selects for a file.
FirstAccepting(f) ==
    IF f.ewf THEN "EWF" ELSE IF f.vmdk THEN "VMDK" ELSE IF f.aff4 THEN "AFF4"
    ELSE IF f.raw THEN "RAW" ELSE "none"

\* C9: in auto mode the dispatcher probes EWF, then VMDK, then AFF4, then
\* RAW, and holds the engine of the first constructor that succeeds: a file
\* that only the AFF4 constructor accepts among the first three is opened as
\* AFF4, not RAW.
C9_AutoProbesInOrder ==
    (last.op = "open" /\ last.arg[2] = "auto")
        => eng[1].kind = FirstAccepting(last.arg[1])


\* ============================================== properties of a BodySlice

\* C10: after any sequence of reads and seeks on a BodySlice,
\* 0 <= pos <= length; each read returns at most min(buf.len, length - pos)
\* bytes, advances pos by exactly the count returned, and returns 0 once
\* pos = length.
C10_SliceBounds ==
    /\ (eng[2] # NoEngine)
          => (0 <= eng[2].pos /\ eng[2].pos <= eng[2].slice_len)
    /\ (last.op = "slice.read" /\ last.res = "ok")
          => /\ last.n <= Min(last.len, eng[2].slice_len - last.tell0)
             /\ Len(last.bytes) = last.n
             /\ eng[2].pos = last.tell0 + last.n
             /\ (last.tell0 = eng[2].slice_len => last.n = 0)

\* C10 happens: a read with a buffer longer than what is left of the slice
\* returned what was left, and the next read (pos = length) returned 0.
C10_Witness ==
    /\ last.op = "slice.read" /\ last.res = "ok"
    /\ last.len > eng[2].slice_len - last.tell0
    /\ last.n > 0
    /\ eng[2].pos = eng[2].slice_len
    /\ SliceRead(eng[2], ofd, MaxLen).n = 0

\* The position the last seek on the slice resolves to, as an integer.
SliceResolved ==
    CASE last.whence = "Start"   -> last.off
      [] last.whence = "Current" -> last.tell0 + last.off
      [] OTHER                   -> last.arg[1].slice_len + last.off

\* C11: a seek on a BodySlice whose resolved position (from Start, Current or
\* End) is negative or greater than length fails with InvalidInput, for every
\* i64 offset and every u64 pos and length, and leaves pos and the cursor of
\* the underlying body unchanged.
C11_SliceSeekRejects ==
    (last.op = "slice.seek"
        /\ (SliceResolved < 0 \/ SliceResolved > last.arg[1].slice_len))
        => /\ last.res = "err"
           /\ eng[2] = last.arg[1]
           /\ ofd = last.arg[2]

\* C12: a BodySlice(owner, start, length) is a window with a position of its
\* own: after every successful seek or read on the slice the cursor of its
\* private body is start + pos, a read at slice position p returns the
\* owner's bytes at start + p, and calls on the owner between two calls on the
\* slice change nothing of that.
C12_SliceIsWindow ==
    (eng[2] # NoEngine /\ last.res = "ok"
        /\ last.op \in {"slice.seek", "slice.read", "owner.seek", "owner.read"})
        => /\ Tell(eng[2].body, ofd) = eng[2].slice_start + eng[2].pos
           /\ last.op = "slice.read"
                 => last.bytes = ImageBytes(eng[2].slice_start + last.tell0,
                                            eng[2].slice_start + last.tell0 + last.n)

\* ================================================= properties of the VMDK engine

\* First and last byte offset (exclusive) of extent i of the descriptor.
ExtentStart(e, i) == e.extent_descriptions[i].extent_start_sector * SectorBytes
ExtentEnd(e, i) ==
    (e.extent_descriptions[i].extent_start_sector
        + e.extent_descriptions[i].sector_number) * SectorBytes

\* C13: for a VMDK whose descriptor lists a ZERO extent (a line without a
\* file name), a read positioned inside that extent fills the part of the
\* buffer that falls in the extent with 0x00, returns that length and
\* advances position by what it returns.
C13_ZeroExtentReadsZero ==
    (eng[1].kind = "VMDK" /\ last.op = "read" /\ last.len > 0)
        => \A i \in 1..Len(eng[1].extent_descriptions) :
              (eng[1].extent_descriptions[i].extent_type = "ZERO"
                  /\ ExtentStart(eng[1], i) <= last.tell0
                  /\ last.tell0 < ExtentEnd(eng[1], i))
                  => /\ last.res = "ok"
                     /\ last.n >= Min(last.len, ExtentEnd(eng[1], i) - last.tell0)
                     /\ \A j \in 1..Min(last.len, ExtentEnd(eng[1], i) - last.tell0) :
                           last.bytes[j] = 0
                     /\ eng[1].position = last.tell0 + last.n

\* The byte at offset i of a SPARSE extent with metadata meta, as the grain
\* table gives it: zero in a grain whose entry is 0, the stored byte else.
SparseByte(meta, i) ==
    IF meta.grain_directory[(i \div (meta.grain_number * SectorBytes)) + 1] = 0
    THEN 0 ELSE ImageByte(i)

\* C14: in a VMDK SPARSE extent every byte of a read that falls in a grain
\* whose table entry is 0 is 0x00 and every byte that falls in an allocated
\* grain is that grain's stored byte; the count returned is the number of
\* bytes written, each grain's part in logical order (here for an extent
\* whose grains are stored raw).
C14_SparseGrainsRead ==
    (eng[1].kind = "VMDK" /\ eng[1].img = 3 /\ last.op = "read" /\ last.res = "ok")
        => \A j \in 1..last.n :
              last.bytes[j]
                  = SparseByte(eng[1].extent_files[1].sparse_extent_metadata,
                               last.tell0 + j - 1)

\* C15: a VMDK read whose range [position, position + len) overlaps two or
\* more consecutive extents returns the bytes of each overlapped extent in
\* logical order, written contiguously from buffer index 0; the count is the
\* number of bytes written and position advances by it (here for the image of
\* two FLAT extents).
C15_ReadAcrossExtents ==
    (eng[1].kind = "VMDK" /\ eng[1].img = 1 /\ last.op = "read"
        /\ \E i \in 2..Len(eng[1].extent_descriptions) :
              /\ last.tell0 < ExtentStart(eng[1], i)
              /\ ExtentStart(eng[1], i) < last.tell0 + last.len)
        => /\ last.res = "ok"
           /\ last.n = Min(last.len, ImageSize(eng[1]) - last.tell0)
           /\ last.bytes = ImageBytes(last.tell0, last.tell0 + last.n)
           /\ eng[1].position = last.tell0 + last.n

\* ================================================== properties of the EWF engine

\* The image offset the chunk cache of an EWF engine stands at.
EwfCursor(e) ==
    e.chunks[e.cached_chunk.segment][e.cached_chunk.number + 1].chunk_number
        * chunk_size(e.volume)
    + e.cached_chunk.ptr

\* What a read of len bytes does in the state the engine is in.
EwfReadsImage(e, r, len) ==
    /\ r.res = "ok"
    /\ r.bytes = ImageBytes(EwfCursor(e), Min(EwfCursor(e) + len, max_offset(e.volume)))
    /\ r.n = Len(r.bytes)

\* The images whose size is a whole number of chunks.
WholeChunkImages == {1, 4}

\* C16: an EWF read that crosses a chunk boundary, the boundary between the
\* last chunk of a segment and the first chunk of the next one included,
\* returns in one call the tail of the first chunk followed by the head of
\* the next, in order; after the last chunk of the last segment a read
\* returns 0.  (Stated for every read the engine can be asked for in the
\* state it is in, on images made of whole chunks.)
C16_ReadAcrossChunks ==
    (eng[1].kind = "EWF" /\ eng[1].img \in WholeChunkImages /\ Alive)
        => \A len \in 1..MaxLen : EwfReadsImage(eng[1], ewf_read(eng[1], len), len)

\* C16 happens: a read sought to the last byte of the last chunk of segment 1
\* returned that byte and the first ones of segment 2; and at the end of the
\* image a read returns 0.
C16_Witness ==
    /\ eng[1].kind = "EWF" /\ eng[1].img = 1
    /\ last.op = "read" /\ last.res = "ok"
    /\ last.from = chunk_size(eng[1].volume) - 1
    /\ last.n = MaxLen
    /\ last.bytes = ImageBytes(last.from, last.from + MaxLen)
    /\ eng[1].cached_chunk.segment = 2

\* C17: in the EWF engine, when the decoded chunk in the cache is shorter
\* than chunk_size (the final chunk of the image), a read that reaches past
\* the decoded length is treated as end of stream: it returns only the bytes
\* that exist (0 when none remain) and never indexes the cached data out of
\* bounds or panics.  (Image 2: the last chunk is compressed and decodes to
\* one sector less than chunk_size.)
C17_ShortLastChunkIsEof ==
    (eng[1].kind = "EWF" /\ eng[1].img = 2 /\ last.op = "read")
        => /\ last.res = "ok"
           /\ last.from >= 0
                 => last.bytes = ImageBytes(last.from,
                                            Min(last.from + last.len,
                                                max_offset(eng[1].volume)))

\* ================================================= properties of the AFF4 engine

\* Virtual offset v lies inside an interval of the map of an AFF4 test image.
Aff4InInterval(img, v) ==
    \E i \in 1..Len(Aff4Intervals(img)) : interval_covers(Aff4Intervals(img), i, v)

\* The byte at virtual offset v of an AFF4 test image, as its map gives it:
\* the decoded byte inside an interval, zero between intervals.
Aff4VirtualByte(img, v) == IF Aff4InInterval(img, v) THEN ImageByte(v) ELSE 0

\* What a read of len bytes gives in the state e: r is what it returned.
Aff4ReadsMap(e, r, len) ==
    /\ r.res = "ok"
    /\ r.n = Min(len, Max(Aff4ImageSize(e.img) - e.position, 0))
    /\ r.bytes = [j \in 1..r.n |-> Aff4VirtualByte(e.img, e.position + j - 1)]
    /\ r.eng.position = e.position + r.n

\* The images whose compression the engine decodes.
Aff4Decodable == {1, 2}

\* C18: an AFF4 read over a map with gaps returns, in order, decoded bytes
\* for the mapped parts and 0x00 for exactly the bytes between the end of one
\* interval and the start of the next (or image_size), and no read returns
\* more than image_size - position bytes.  (For every length up to the whole
\* image, in every state the engine reaches.)
C18_ReadOverGaps ==
    (eng[1].kind = "AFF4" /\ eng[1].img \in Aff4Decodable)
        => \A len \in 1..Aff4ImageSize(eng[1].img) :
              Aff4ReadsMap(eng[1], Aff4Read(eng[1], len), len)

\* C18 happens: a read that began in the first interval returned its last
\* byte and zeroes of the hole; a read of the whole image from offset 0 gives
\* decoded bytes, the zeroes of the hole, decoded bytes.
C18_Witness ==
    /\ eng[1].kind = "AFF4" /\ eng[1].img = 2
    /\ last.op = "read" /\ last.res = "ok"
    /\ last.tell0 = 2 * Aff4ChunkBytes - 1
    /\ last.n = MaxLen
    /\ last.bytes = <<ImageByte(last.tell0)>> \o Rep(0, MaxLen - 1)
    /\ Aff4Read([eng[1] EXCEPT !.position = 0], Aff4ImageSize(2)).bytes
          = ImageBytes(0, 2 * Aff4ChunkBytes) \o Rep(0, Aff4ChunkBytes)
              \o ImageBytes(3 * Aff4ChunkBytes, 4 * Aff4ChunkBytes)

\* The images whose metadata declares snappy, zlib or an unknown method.
Aff4Undecodable == {3, 4, 5}

\* A read of len bytes in the state e has to decode a chunk: a byte of its
\* range lies in a mapped interval.
Aff4NeedsChunk(e, len) ==
    \E v \in e.position..(Min(e.position + len, Aff4ImageSize(e.img)) - 1) :
        Aff4InInterval(e.img, v)

\* The read failed with Unsupported and handed no byte to the caller.
Aff4Refused(r) ==
    /\ r.res = "err"
    /\ r.kind = "Unsupported"
    /\ r.n = 0
    /\ r.bytes = <<>>

\* The read returned the stored bytes of the chunk.
Aff4ReturnedStored(r, stored) ==
    /\ r.res = "ok"
    /\ r.bytes = stored
    /\ r.eng.cache.data = stored

\* C19: when the AFF4 metadata declares snappy, zlib or an unknown
\* compression method, every read that has to decode a chunk of a mapped
\* interval fails with an Unsupported error and copies no bytes of that chunk
\* to the caller; under lz4 a chunk whose c_len equals chunk_size is returned
\* as-is, without decompression.
C19_CompressionMethods ==
    /\ (eng[1].kind = "AFF4" /\ eng[1].img \in Aff4Undecodable)
          => \A len \in 1..Aff4ImageSize(eng[1].img) :
                Aff4NeedsChunk(eng[1], len) => Aff4Refused(Aff4Read(eng[1], len))
    /\ (eng[1].kind = "AFF4" /\ Aff4Compression(eng[1].img) = "Lz4")
          => /\ Aff4Index(eng[1].img, MemberName("d", Aff4Style(eng[1].img), 0))[1].c_len
                   = Aff4ChunkBytes
             /\ Aff4ReturnedStored(Aff4Read([eng[1] EXCEPT !.position = 0], Aff4ChunkBytes),
                                   Aff4ChunkStored(eng[1].img, 0, 0))

\* C19 happens: a read inside the first interval of the snappy image failed,
\* and the next one fails with Unsupported.
C19_Witness ==
    /\ eng[1].kind = "AFF4" /\ eng[1].img = 3
    /\ last.op = "read" /\ last.res = "err" /\ last.len > 0
    /\ last.tell0 < 2 * Aff4ChunkBytes
    /\ Aff4Read(eng[1], 1).kind = "Unsupported"

\* ====================================== properties of the descriptor parser

\* line reads key, blanks, "=", blanks, then value between double quotes
\* (quoted) or bare, the key klen characters long with s1 blanks before the
\* equals sign and s2 after it.
KvForm(line, klen, s1, s2, quoted) ==
    /\ klen >= 1
    /\ klen + s1 + 1 + s2 + (IF quoted THEN 2 ELSE 0) <= Len(line)
    /\ \A i \in 1..klen : line[i] \in KeyChars
    /\ \A i \in (klen + 1)..(klen + s1) : line[i] \in SpaceChars
    /\ line[klen + s1 + 1] = "="
    /\ \A i \in (klen + s1 + 2)..(klen + s1 + 1 + s2) : line[i] \in SpaceChars
    /\ IF quoted
       THEN /\ line[klen + s1 + s2 + 2] = "\""
            /\ line[Len(line)] = "\""
            /\ \A i \in (klen + s1 + s2 + 3)..(Len(line) - 1) : line[i] # "\""
       ELSE /\ \A i \in (klen + s1 + s2 + 2)..Len(line) : line[i] # "\""
            /\ klen + s1 + s2 + 2 <= Len(line) => line[klen + s1 + s2 + 2] \notin SpaceChars

\* The value of a line of that form.
KvFormValue(line, klen, s1, s2, quoted) ==
    IF quoted THEN SubSeq(line, klen + s1 + s2 + 3, Len(line) - 1)
    ELSE SubSeq(line, klen + s1 + s2 + 2, Len(line))

\* C20: parse_key_value_pair returns Some((key, value)) for a line of the
\* form `key = value`, key made of word characters and periods, with optional
\* whitespace around `=` and one optional pair of enclosing double quotes
\* removed from the value (inner blanks and non-ASCII characters kept), and
\* None for a line without `=`.
C20_ParseKeyValuePair ==
    last.op = "parsed"
        => /\ \A klen \in 1..Len(last.arg) :
                 \A s1 \in 0..(Len(last.arg) - klen) :
                 \A s2 \in 0..(Len(last.arg) - klen - s1), quoted \in BOOLEAN :
                 KvForm(last.arg, klen, s1, s2, quoted)
                     => last.bytes = <<SubSeq(last.arg, 1, klen),
                                       KvFormValue(last.arg, klen, s1, s2, quoted)>>
           /\ (\A i \in 1..Len(last.arg) : last.arg[i] # "=") => last.bytes = <<>>

\* C20 happens: a line with a blank before `=` and a quoted non-ASCII value
\* was parsed into the key and the value without its quotes.
C20_Witness ==
    /\ last.op = "parsed"
    /\ last.arg = <<"k", " ", "=", "\"", "e'", "\"">>
    /\ last.bytes = << <<"k">>, <<"e'">> >>

\* =================================== properties of the descriptor sections

\* The section line i of lines is read in: that of the last marker before it.
RECURSIVE SectionAt(_, _)
SectionAt(lines, i) ==
    IF i <= 1 THEN ""
    ELSE IF Trim(lines[i - 1]) \in {DESCRIPTOR_FILE_SIGNATURE,
                                    DESCRIPTOR_FILE_EXTENT_SECTION_SIGNATURE,
                                    DESCRIPTOR_FILE_CHANGE_TRACKING_SECTION_SIGNATURE,
                                    DESCRIPTOR_FILE_DISK_DATABASE_SECTION_SIGNATURE}
    THEN get_descriptor_section(Trim(lines[i - 1]))
    ELSE SectionAt(lines, i - 1)

\* The lines of one section, in order.
LinesIn(lines, section) ==
    {i \in 1..Len(lines) : SectionAt(lines, i) = section}

\* The value the lines of a section give a key: that of the last such line.
Landed(lines, section) ==
    {KeyValueOf(Trim(lines[i])) : i \in
        {j \in LinesIn(lines, section) :
            /\ KeyValueOf(Trim(lines[j])) # <<>>
            /\ \A l \in LinesIn(lines, section) :
                  (l > j /\ KeyValueOf(Trim(lines[l])) # <<>>)
                      => KeyValueOf(Trim(lines[l]))[1] # KeyValueOf(Trim(lines[j]))[1]}}

\* The extent lines of the extent section, in order.
RECURSIVE LandedExtents(_, _)
LandedExtents(lines, n) ==
    IF n = 0 THEN <<>>
    ELSE LandedExtents(lines, n - 1)
         \o (IF SectionAt(lines, n) = "extent" THEN ExtentOf(Trim(lines[n])) ELSE <<>>)

\* C21: descriptor parsing is section-qualified: each non-comment line is
\* interpreted by the most recent recognised marker; any other comment line
\* and blank lines leave the current section unchanged, and lines before the
\* first marker are ignored, so header keys, the extent line and the ddb keys
\* that follow `# DDB` all land in their own sections.
C21_SectionQualified ==
    eng[1].kind = "descriptor"
        => /\ eng[1].current_section = SectionAt(last.arg, Len(last.arg) + 1)
           /\ eng[1].file_header_hashmap = Landed(last.arg, "header")
           /\ eng[1].ddb_hashmap = Landed(last.arg, "ddb")
           /\ eng[1].extent_descriptions = LandedExtents(last.arg, Len(last.arg))
           /\ \A x \in Landed(last.arg, "change_tracking") :
                  x[1] = "changeTrackPath" => eng[1].change_track_path = x[2]
           /\ eng[1].change_track_path # ""
                  => <<"changeTrackPath", eng[1].change_track_path>>
                         \in Landed(last.arg, "change_tracking")

\* C21 happens: after the header keys and the extent line of the test, the
\* ddb marker, `# DDB` and a ddb key were read, and each landed in its section.
C21_Witness ==
    /\ last.op = "parsed"
    /\ last.res = "ok"
    /\ last.arg = DescriptorStart
                  \o <<DESCRIPTOR_FILE_DISK_DATABASE_SECTION_SIGNATURE, "# DDB",
                       "ddb.adapterType = \"ide\"">>
    /\ eng[1].ddb_hashmap = {<<"ddb.adapterType", "ide">>}
    /\ Len(eng[1].extent_descriptions) = 1
    /\ <<"version", "1">> \in eng[1].file_header_hashmap

\* ======================================== properties of the VMDK extents

\* The sectors before extent i of a list of extent descriptors.
SectorsBefore(extents, i) ==
    SumSeq([j \in 1..(i - 1) |-> extents[j].sector_number])

\* The extents of a list that hold the logical byte position p.
ExtentsHolding(extents, p) ==
    {i \in 1..Len(extents) :
        /\ extents[i].extent_start_sector * SectorBytes <= p
        /\ p < (extents[i].extent_start_sector + extents[i].sector_number) * SectorBytes}

\* C22: after VMDK construction the extents are concatenated in listed order:
\* extent i starts at the sum of the sector counts before it, so every
\* position below the total device size lies in exactly one extent, also
\* when the descriptor gives explicit start sectors.
C22_ExtentsConcatenated ==
    (last.op = "new" /\ last.res = "ok")
        => /\ \A i \in 1..Len(eng[1].extent_descriptions) :
                 eng[1].extent_descriptions[i].extent_start_sector
                     = SectorsBefore(eng[1].extent_descriptions, i)
           /\ \A p \in 0..(SectorsBefore(eng[1].extent_descriptions,
                                         Len(eng[1].extent_descriptions) + 1)
                           * SectorBytes - 1) :
                 Cardinality(ExtentsHolding(eng[1].extent_descriptions, p)) = 1

\* C23: for a FLAT or VMFS extent, a read at logical position p inside the
\* extent reads the extent file at byte offset start_sector x 512 + rel_pos,
\* where rel_pos is p minus the logical start of the extent.
C23_FlatReadsAtStartSector ==
    eng[1].kind = "VMDK"
        => \A i \in 1..Len(eng[1].extent_files) :
              LET x == eng[1].extent_files[i]
                  start == x.extent_description.extent_start_sector * SectorBytes
                  end == (x.extent_description.extent_start_sector
                          + x.extent_description.sector_number) * SectorBytes
              IN  (/\ x.extent_description.extent_type \in {"FLAT", "VMFS"}
                   /\ start <= eng[1].position
                   /\ eng[1].position < end)
                      => vmdk_read(eng[1], 1).bytes
                             = FileRead(VmdkFile(eng[1].img, x.file),
                                        start + (eng[1].position - start), 1)

\* C24: for a SPARSE extent with the compressed-grain flag, a read that
\* starts at within-grain offset a in an allocated grain and requests L bytes
\* copies inflated[a .. a + min(L, grain_size_bytes - a)) to the start of the
\* caller's slice for that grain and counts exactly that many bytes, for
\* every a and L, without a slice-bounds panic.  (L is kept inside the grain,
\* so that the read is of that grain alone.)
C24_CompressedGrainRead ==
    (eng[1].kind = "VMDK" /\ eng[1].img = 4 /\ eng[1].position < 3 * GrainBytes)
        => \A L \in 1..MaxLen :
              LET a == eng[1].position % GrainBytes
                  grain == eng[1].position \div GrainBytes
              IN  (/\ VmdkSparseMeta(4).grain_directory[grain + 1] # 0
                   /\ L <= GrainBytes - a)
                      => /\ vmdk_read(eng[1], L).res = "ok"
                         /\ vmdk_read(eng[1], L).n = L
                         /\ vmdk_read(eng[1], L).bytes
                                = ImageBytes(eng[1].position, eng[1].position + L)

\* ========================================== properties of the AFF4 map

\* The (target, target offset) pairs the records give virtual byte v.
RecordsMap(records, v) ==
    {<<aff4_uri_to_zip_base(MapTargets[records[i].index + 1]),
       records[i].target_off + (v - records[i].v_off)>> :
        i \in {j \in 1..Len(records) :
                  /\ records[j].v_off <= v
                  /\ v < records[j].v_off + records[j].extent_len}}

\* The pairs the interval table gives it.
IntervalsMap(intervals, v) ==
    {<<intervals[i].target_urn, intervals[i].target_offset + (v - intervals[i].virtual_offset)>> :
        i \in {j \in 1..Len(intervals) :
                  /\ intervals[j].virtual_offset <= v
                  /\ v < intervals[j].virtual_offset + intervals[j].length}}

\* No record's target range ends past the largest u64.
TargetsInRange(records) ==
    \A i \in 1..Len(records) :
        records[i].target_off + records[i].extent_len < U64Modulus

\* Intervals a and b, next to each other in the table, could be one.
Mergeable(a, b) ==
    /\ a.virtual_offset + a.length = b.virtual_offset
    /\ a.target_urn = b.target_urn
    /\ a.target_offset + a.length = b.target_offset

\* The interval table last.bytes is the merge of the records last.arg: it
\* maps every virtual byte to the same (target, target offset) as the records,
\* no two adjacent intervals are still mergeable, it is in order of virtual
\* offset and holds no empty interval.
MapMerged ==
    /\ \A v \in 0..(MapImageSize + 1) :
          IntervalsMap(last.bytes, v) = RecordsMap(last.arg, v)
    /\ \A i \in 1..(Len(last.bytes) - 1) :
          /\ ~Mergeable(last.bytes[i], last.bytes[i + 1])
          /\ last.bytes[i].virtual_offset <= last.bytes[i + 1].virtual_offset
    /\ \A i \in 1..Len(last.bytes) : last.bytes[i].length > 0

C26_IntervalsDisjoint ==
    (last.op = "parsed" /\ last.res = "ok")
        => /\ \A i \in 1..(Len(last.bytes) - 1) :
                 last.bytes[i].virtual_offset + last.bytes[i].length
                     <= last.bytes[i + 1].virtual_offset
           /\ \A i \in 1..Len(last.bytes) :
                 /\ last.bytes[i].virtual_offset < MapImageSize
                 /\ \E k \in 1..Len(MapTargets) :
                       last.bytes[i].target_urn = aff4_uri_to_zip_base(MapTargets[k])

\* ===================================== properties of the chunk caches

\* The segment and the index inside it of the chunk that holds offset o.
EwfKeyOf(e, o) ==
    <<EwfFindSegment(e.chunks, 1, o \div chunk_size(e.volume)),
      (o \div chunk_size(e.volume))
          - e.chunks[EwfFindSegment(e.chunks, 1, o \div chunk_size(e.volume))][1].chunk_number>>

\* The cache of an EWF engine holds the decoding of the chunk its key names.
EwfCacheCoherent(e) ==
    e.cached_chunk.data
        = read_chunk(e, e.cached_chunk.segment, e.cached_chunk.number).data

\* The cache of an AFF4 engine holds the decoding of the chunk its key names.
Aff4CacheCoherent(e) ==
    e.cache.data = LoadChunk(e, e.cache.member, e.cache.chunk_index).cache.data

\* C27: each engine keeps a one-entry decoded-chunk cache that is coherent
\* and reused: whenever the next access needs the chunk whose key equals the
\* cached key, the chunk is not read and decoded again, and after any
\* sequence of seeks and reads the cached bytes equal the decoding of the
\* chunk named by the cached key.
C27_CacheCoherentAndReused ==
    /\ (eng[1].kind = "EWF" /\ Alive /\ eng[1].cached_chunk.data # <<>>)
           => /\ EwfCacheCoherent(eng[1])
              /\ \A o \in 0..(max_offset(eng[1].volume) - 1) :
                    EwfKeyOf(eng[1], o)
                        = <<eng[1].cached_chunk.segment, eng[1].cached_chunk.number>>
                        => ewf_seek(eng[1], o).loads = 0
    /\ (eng[1].kind = "AFF4" /\ eng[1].cache.data # <<>>)
           => /\ Aff4CacheCoherent(eng[1])
              /\ load_chunk_into_cache(eng[1], eng[1].cache.member,
                                       eng[1].cache.chunk_index).loads = 0

\* ================================ properties of the legacy zip locator

\* The offsets at which the signature occurs in a file.
EocdOccurrences(file) ==
    {s \in 0..(Len(file) - Len(EOCD_SIGNATURE)) :
        SubSeq(file, s + 1, s + Len(EOCD_SIGNATURE)) = EOCD_SIGNATURE}

\* C28: find_legacy_eocd_offset, scanning backwards in windows that overlap
\* by 3 bytes, returns the offset of the last occurrence of the 4-byte EOCD
\* signature in the file for every file length and every signature position,
\* including an occurrence that straddles a window boundary, and fails with
\* a Format error exactly when the signature does not occur.
C28_LastEocdFound ==
    last.op = "eocd"
        => IF EocdOccurrences(last.arg) = {}
           THEN last.res = "Format"
           ELSE /\ last.res = "ok"
                /\ last.ret \in EocdOccurrences(last.arg)
                /\ \A s \in EocdOccurrences(last.arg) : s <= last.ret

\* C28 happens: the only complete signature of a file of two windows and more
\* straddles the start of the last window, and was found.
C28_Witness ==
    /\ last.op = "eocd"
    /\ last.res = "ok"
    /\ Len(last.arg) = MaxFileLen
    /\ last.ret = MaxFileLen - EocdWindow - 2
    /\ EocdOccurrences(last.arg) = {MaxFileLen - EocdWindow - 2}

\* C29: parsing a segment file terminates: from every segment file the walk
\* of the section chain that starts at offset 13 comes to its end (a `done`
\* section or a descriptor that points at itself) after finitely many turns,
\* also when descriptors point backwards or form a cycle.
C29_SegmentParsingTerminates ==
    <>(last.op = "parsed_segment")

\* C30: a read that returns an error leaves the position of the engine as it
\* was before the call: no byte is consumed without being returned.
C30_FailedReadKeepsPosition ==
    (last.op = "read" /\ last.res = "err")
        => Tell(eng[last.h], ofd) = last.tell0

====
